---- MODULE Spec2Model ----
(***************************************************************************)
(* Note-Embellisher backend: the record of one note (job) in the notes     *)
(* table, the background pipeline working on it, the PDF worker thread and *)
(* the request handlers that touch the same row.                           *)
(*                                                                         *)
(* Scheduling model (src/backend/main.py): the request handlers and the    *)
(* three background pipelines are coroutines of ONE event loop, so the     *)
(* code between two suspending awaits runs without interleaving.  Only     *)
(* run_in_executor suspends a pipeline (chunk enhancement, OCR, PDF        *)
(* generation); process_images_with_gpt4_vision and generate_flashcards    *)
(* are "async def" without any await inside and never yield.  Notes share  *)
(* no mutable state (every pipeline opens its own session and queries by   *)
(* id), so one note is modelled.                                           *)
(***************************************************************************)
EXTENDS Integers, Sequences, FiniteSets, TLC

VARIABLES
    enumMembers,   \* member names of the ProcessingStatus enumeration
    note,          \* the persisted row of the note (or Absent)
    sess,          \* the pipeline session's in-memory copy of the row
    route,         \* which background pipeline was scheduled for the note
    settings,      \* ProcessingSettings snapshot taken at submission
    phase,         \* scheduling state of the background task
    pc,            \* index of the next instruction of the pipeline
    loc,           \* local variables of the pipeline coroutine
    pdfThread,     \* state of generate_pdf_sync_wrapper in the executor
    cancelLog,     \* outcomes of the cancel requests made so far
    progHist,      \* every progress value persisted for the note, in order
    ghost,         \* history: what happened to the note (for the properties)
    lastAct,       \* who took the last step
    exp,           \* ensure_note_exports on a processed note: row, files, calls
    chk,           \* _split_text_into_chunks: the arguments and the result
    enh,           \* process_text_with_chatgpt: the chunk calls of one job
    fbk,           \* _create_fallback_enhanced_text: arguments and result
    fls,           \* maybe_generate_flashcards_for_note on one note
    ckp,           \* _refresh_note_and_check_cancelled: record, copy, result
    ltx,           \* generate_latex_document: backend answer and result
    prg,           \* update_note_progress on one row, any progress argument
    drv,           \* drive_auth_states: the OAuth state tokens and the clock
    rty            \* DropboxService._retry_with_refresh: one call, its outcome

\* the state of the components that are checked on their own
libVars == <<exp, chk, enh, fbk, fls, ckp, ltx, prg, drv, rty>>

\* the state of the job pipeline
mainVars == <<enumMembers, note, sess, route, settings, phase, pc, loc,
              pdfThread, cancelLog, progHist, ghost, lastAct>>

vars == <<enumMembers, note, sess, route, settings, phase, pc, loc,
          pdfThread, cancelLog, progHist, ghost, lastAct, exp, chk, enh,
          fbk, fls, ckp, ltx, prg, drv, rty>>

----------------------------------------------------------------------------
(* Bounds *)

MaxCancels == 2     \* cancel requests per behaviour
MaxCards   == 1     \* manual flashcards added per behaviour
MaxEdits   == 1     \* metadata edits / export regenerations per behaviour
MaxFaults  == 1     \* commits of the pipeline that the database rejects
MaxExportCalls == 2 \* calls of ensure_note_exports per behaviour
MaxTextLen == 7     \* characters of a text given to the chunker
MaxChunkLimit == 6  \* largest max_chars given to the chunker
MaxChunks == 4      \* chunks of the text of one enhancement call
MaxNoteLen == 4     \* characters of a text given to the local fallback
MaxFlashcardCount == 3 \* largest small flashcard_count of the settings
MaxPerTopic == 2    \* largest max_flashcards_per_topic given
MaxChecks == 2      \* checkpoints taken on one record
MaxDocLines == 4    \* lines of a backend answer to the LaTeX prompt
MaxOver == 2        \* how far a progress argument lies outside 0..100
MaxUpdates == 3     \* calls of update_note_progress on one row
MaxClock == 3       \* clock ticks within one behaviour of the OAuth states

\* the formats arguments tried (the empty list stands for the default, all
\* three) and the sets of formats whose generation fails in one call
CallFormats == {{}, {"txt"}, {"pdf", "docx"}}
CallFailures == {{}, {"pdf"}, {"docx"}}

----------------------------------------------------------------------------
(* Values *)

NULL   == "NULL"
Absent == [exists |-> FALSE]

\* core/schemas.py: class ProcessingStatus(str, Enum)
ProcessingStatus == {"PENDING", "PROCESSING", "COMPLETED", "ERROR"}

\* the member set that cancel_note_processing, update_note_progress,
\* _refresh_note_and_check_cancelled and the three handlers refer to
ProcessingStatusWithCancelled == ProcessingStatus \cup {"CANCELLED"}

\* Python attribute lookup ProcessingStatus.<name>: a value, or AttributeError
HasMember(name) == name \in enumMembers

CancelMessage == "Processing cancelled by user"
\* f"Processing failed: {e}", the text of the exception left out
FailedMessage == "Processing failed"
OcrUnavailableText ==
    "[OCR service is not available in this deployment. Please process text manually.]"
ImageFailedText    == "[Image processing failed - no text extracted]"
MultiFailedText    == "[Multiple image processing failed]"
NoClientVisionText == "OpenAI client not available. Please configure OPENAI_API_KEY."

----------------------------------------------------------------------------
(* The three background pipelines as instruction tables.  Each entry is    *)
(* one statement (or one awaited call) of the coroutine, in source order;  *)
(* p/m/st are the arguments of update_note_progress.                       *)

Ins(op, p, m, st) == [op |-> op, p |-> p, m |-> m, st |-> st]
I(op) == Ins(op, 0, NULL, NULL)

\* process_note_background (the text route)
TextProgram == <<
    I("query"),                                                   \* 1594
    I("check"),                                                   \* 1601
    Ins("progress", 5, "Starting note enhancement...", NULL),     \* 1603
    Ins("progress", 25, "Enhancing content with ChatGPT...", NULL), \* 1606
    I("check"),                                                   \* 1607
    I("enhance"),                                                 \* 1609
    I("check"),                                                   \* 1613
    I("store_processed"),                                         \* 1617-1619
    I("check"),                                                   \* 1620
    I("flashcards"),                                              \* 1623
    I("check"),                                                   \* 1629
    Ins("progress", 50, "Converting to LaTeX format...", NULL),   \* 1632
    I("check"),                                                   \* 1633
    Ins("progress", 70, "Compiling LaTeX PDF...", NULL),          \* 1637
    I("check"),                                                   \* 1638
    I("pdf"),                                                     \* 1643
    I("check"),                                                   \* 1647
    I("finish") >>                                                \* 1650-1658

\* process_image_note_background (the OCR route, used for uploaded PDFs)
ImageProgram == <<
    I("query"),                                                   \* 1681
    Ins("progress", 10, "Running OCR on uploaded files...", NULL), \* 1687
    I("check"),                                                   \* 1688
    I("ocr"),                                                     \* 1692-1708
    I("store_text"),                                              \* 1711-1712
    I("check"),                                                   \* 1713
    Ins("progress", 45, "Enhancing extracted notes with GPT-4...", NULL), \* 1716
    I("check"),                                                   \* 1722
    I("enhance"),                                                 \* 1726
    I("check"),                                                   \* 1730
    I("store_processed"),                                         \* 1734-1736
    I("check"),                                                   \* 1737
    I("flashcards"),                                              \* 1740
    I("check"),                                                   \* 1746
    Ins("progress", 65, "Converting to LaTeX format...", NULL),   \* 1749
    I("check"),                                                   \* 1750
    Ins("progress", 80, "Compiling LaTeX PDF...", NULL),          \* 1754
    I("check"),                                                   \* 1755
    I("pdf"),                                                     \* 1759
    I("check"),                                                   \* 1763
    I("finish") >>                                                \* 1766-1772

\* process_multiple_images_background (the GPT-4 Vision route)
MultiProgram == <<
    I("query"),                                                   \* 1801
    Ins("progress", 10, "Preparing images for GPT-4 Vision...", NULL), \* 1815
    I("check"),                                                   \* 1816
    I("require_chat"),                                            \* 1820
    Ins("progress", 35, "Analyzing handwriting with GPT-4 Vision...", NULL), \* 1825
    I("check"),                                                   \* 1826
    I("vision"),                                                  \* 1839
    I("check"),                                                   \* 1844
    Ins("progress", 60, "Converting to LaTeX format...", NULL),   \* 1848
    I("check"),                                                   \* 1849
    I("store_both"),                                              \* 1854-1857
    I("check"),                                                   \* 1858
    I("flashcards"),                                              \* 1861
    I("check"),                                                   \* 1867
    Ins("progress", 80, "Compiling LaTeX PDF...", NULL),          \* 1871
    I("check"),                                                   \* 1872
    I("pdf"),                                                     \* 1876
    I("check"),                                                   \* 1880
    I("finish") >>                                                \* 1883-1889

Program ==
    CASE route = "text"  -> TextProgram
      [] route = "ocr"   -> ImageProgram
      [] route = "vision" -> MultiProgram
      [] OTHER           -> << >>

\* the instruction the running coroutine executes next
Cur == Program[pc]
At(op) == phase = "running" /\ pc \in 1..Len(Program) /\ Cur.op = op

----------------------------------------------------------------------------
(* The job store and the pipeline's ORM session *)

Fields == {"status", "progress", "progress_message", "text",
           "processed_content", "pdf_path", "txt_path", "project_name",
           "flashcards"}

\* db.commit(): the unit of work UPDATEs exactly the columns whose in-memory
\* value differs from the value the session loaded; every other column keeps
\* what the store holds (possibly written by another session meanwhile)
Flush(row, cache, obj) ==
    [f \in DOMAIN row |->
        IF f \in Fields /\ obj[f] # cache[f] THEN obj[f] ELSE row[f]]

\* (variant: the progress argument is stored as given)
NoClamp(p) == p

\* (variant: the progress argument is dropped)
DropProgress(p) == 0

\* max(0, min(100, progress)) in update_note_progress
Clamp(p) == IF p < 0 THEN 0 ELSE IF p > 100 THEN 100 ELSE p

\* (variant: update_note_progress without its guard)
NoGuardProgress(obj, p, m, st) ==
    [obj EXCEPT !.progress = Clamp(p),
                !.progress_message = IF m # NULL THEN m ELSE @,
                !.status = IF st # NULL THEN st ELSE @]

\* update_note_progress, the guard on the in-memory status included:
\* the in-memory object after the assignments (before the commit)
update_note_progress(obj, p, m, st) ==
    IF obj.status = "CANCELLED" /\ st = NULL
    THEN obj
    ELSE [obj EXCEPT !.progress = Clamp(p),
                     !.progress_message = IF m # NULL THEN m ELSE @,
                     !.status = IF st # NULL THEN st ELSE @]

\* (variant: the checkpoint never reports a cancel)
NeverCancelled(row) == FALSE

\* _refresh_note_and_check_cancelled, given the freshly loaded row
IsCancelled(row) == row.status = "CANCELLED"

\* (variant: the column default of Note.status, core/database.py:30)
ColumnDefaultStatus == "PENDING"

\* the status a submit handler persists (create_note, upload_image_note,
\* upload_multiple_images all pass status=ProcessingStatus.PROCESSING)
InitialStatus == "PROCESSING"

NewRow(text, msg, imageType) ==
    [exists |-> TRUE, status |-> InitialStatus, progress |-> 0,
     progress_message |-> msg, text |-> text, processed_content |-> NULL,
     pdf_path |-> NULL, txt_path |-> NULL, project_name |-> NULL,
     flashcards |-> << >>, image_type |-> imageType]

\* (variant: a cancel is accepted in every status)
AlwaysCancel(status) == "200"

\* cancel_note_processing: the response for a given stored status
CancelOutcome(status) ==
    IF status \in {"COMPLETED", "CANCELLED"} THEN "400_finished"
    ELSE IF status = "ERROR" THEN "400_failed"
    ELSE "200"

\* (variant: the except block leaves the progress column alone)
HandlerKeepsProgress(obj) ==
    [obj EXCEPT !.status = "ERROR", !.progress_message = FailedMessage]

\* the except-blocks of the three pipelines: the in-memory object after the
\* assignments, for an object whose in-memory status is not CANCELLED
HandlerAssign(obj) ==
    IF route = "text"
    THEN [obj EXCEPT !.status = "ERROR", !.progress_message = FailedMessage,
                     !.progress = 0]
    ELSE [obj EXCEPT !.status = "ERROR", !.progress = 0,
                     !.progress_message = FailedMessage,
                     !.processed_content = FailedMessage,
                     !.text = IF @ \in {NULL, ""}
                              THEN (IF route = "ocr" THEN ImageFailedText
                                                     ELSE MultiFailedText)
                              ELSE @]

\* process_text_with_chatgpt: the results it can return without suspending
\* (no client: _create_fallback_enhanced_text, which for an empty text is
\* empty or not as the settings add a header or a suffix; blank text: ""),
\* or "await" when the chunks go to the executor
EnhanceCall(text, client) ==
    IF ~client THEN (IF text = "" THEN {"", "fallback"} ELSE {"fallback"})
    ELSE IF text = "" THEN {""}
    ELSE {"await"}

InitLoc == [extracted_text |-> NULL, processed_content |-> NULL,
            pdf_success |-> FALSE]

\* the outputs persisted when an exception is raised
Persisted(row) ==
    [text |-> row.text, processed_content |-> row.processed_content]

InitGhost == [cancelled |-> FALSE, cancelStage |-> "none", raised |-> FALSE,
              raisedAfterCancel |-> FALSE, flash |-> "none",
              cardsAdded |-> 0, edits |-> 0,
              extract |-> "none", pdf |-> "none", faults |-> 0,
              preError |-> [text |-> NULL, processed_content |-> NULL],
              enhanceBegan |-> FALSE, textAtEnhance |-> NULL,
              outbound |-> {}, compiledOn |-> {}]

----------------------------------------------------------------------------
(* Submission: the three request handlers that create the row and schedule *)
(* the background task (BackgroundTasks.add_task)                          *)

Submitted(row, r, gen) ==
    /\ note = Absent
    /\ note' = row
    /\ route' = r
    /\ settings' = [generate_flashcards |-> gen]
    /\ phase' = "queued"
    /\ pc' = 1
    /\ progHist' = <<row.progress>>
    /\ lastAct' = "submit"
    /\ UNCHANGED <<enumMembers, sess, loc, pdfThread, cancelLog, ghost>>
    /\ UNCHANGED libVars

create_note ==
    \E text \in {"raw", ""}, gen \in BOOLEAN :
        Submitted(NewRow(text, "Queued for processing", NULL), "text", gen)

\* a PDF upload goes to the OCR pipeline, an image to the vision pipeline
upload_image_note ==
    \E imageType \in {"pdf", "image"}, gen \in BOOLEAN :
        Submitted(NewRow(NULL, "Uploading media...", imageType),
                  IF imageType = "pdf" THEN "ocr" ELSE "vision", gen)

upload_multiple_images ==
    \E gen \in BOOLEAN :
        Submitted(NewRow(NULL, "Uploading images...", "multiple_images"),
                  "vision", gen)

----------------------------------------------------------------------------
(* The pipeline coroutine, one instruction per step.  While phase is       *)
(* "running" or "handler" the coroutine holds the event loop.              *)

Pipeline(nextPhase, nextPc) ==
    /\ phase' = nextPhase
    /\ pc' = nextPc
    /\ lastAct' = "pipeline"
    /\ UNCHANGED <<enumMembers, route, settings, cancelLog>>
    /\ UNCHANGED libVars

\* an outbound call (network, OCR, PDF compilation) is issued for stage op
Issued(g, op) == [g EXCEPT !.outbound = @ \cup {op}]

\* an exception is raised inside the try block
Raised(g) ==
    [g EXCEPT !.raised = TRUE,
              !.raisedAfterCancel = note.status = "CANCELLED",
              !.preError = Persisted(note)]

Raise ==
    /\ Pipeline("handler", pc)
    /\ ghost' = Raised(ghost)

\* the extraction of the input failed with an exception
RaiseExtraction ==
    /\ Pipeline("handler", pc)
    /\ ghost' = [Raised(ghost) EXCEPT !.extract = "raised"]

\* db.query(Note).filter(Note.id == note_id).first(): the task starts
Query ==
    /\ phase = "queued"
    /\ sess' = note
    /\ Pipeline("running", pc + 1)
    /\ UNCHANGED <<note, loc, pdfThread, progHist, ghost>>

\* if _refresh_note_and_check_cancelled(db, db_note): return
Check ==
    /\ At("check")
    /\ sess' = note
    /\ UNCHANGED <<note, loc, pdfThread, progHist>>
    /\ IF ~HasMember("CANCELLED")
       THEN Raise
       ELSE /\ IF IsCancelled(note) THEN Pipeline("returned", pc)
                                    ELSE Pipeline("running", pc + 1)
            /\ UNCHANGED ghost

\* update_note_progress(db, db_note, p, m)
Progress ==
    /\ At("progress")
    /\ UNCHANGED <<loc, pdfThread>>
    /\ IF ~HasMember("CANCELLED")
       THEN Raise /\ UNCHANGED <<note, sess, progHist>>
       ELSE LET obj == update_note_progress(sess, Cur.p, Cur.m, Cur.st) IN
            /\ note' = Flush(note, sess, obj)
            /\ sess' = note'
            /\ progHist' = IF obj # sess THEN Append(progHist, obj.progress)
                                         ELSE progHist
            /\ Pipeline("running", pc + 1)
            /\ UNCHANGED ghost

\* update_note_progress(db, db_note, p, m) whose db.commit() raises (the
\* database rejects the write): nothing is stored and the exception goes to
\* the except block
CommitFails ==
    /\ At("progress")
    /\ HasMember("CANCELLED")
    /\ sess.status # "CANCELLED"
    /\ ghost.faults < MaxFaults
    /\ Pipeline("handler", pc)
    /\ ghost' = [Raised(ghost) EXCEPT !.faults = @ + 1]
    /\ UNCHANGED <<note, sess, loc, pdfThread, progHist>>

\* processed_content = await chatgpt_service.process_text_with_chatgpt(...)
\* on db_note.text (text route) or extracted_text (OCR route); client is
\* whether the OpenAI client was configured
Enhance ==
    /\ At("enhance")
    /\ \E client \in BOOLEAN :
        LET text == IF route = "text" THEN sess.text ELSE loc.extracted_text
            began == [ghost EXCEPT !.enhanceBegan = TRUE,
                                   !.textAtEnhance = note.text] IN
        \E r \in EnhanceCall(text, client) :
            IF r = "await"
            THEN /\ Pipeline("suspended", pc)
                 /\ ghost' = Issued(began, "enhance")
                 /\ UNCHANGED loc
            ELSE /\ Pipeline("running", pc + 1)
                 /\ ghost' = began
                 /\ loc' = [loc EXCEPT !.processed_content = r]
    /\ UNCHANGED <<note, sess, pdfThread, progHist>>

\* the chunk calls have returned: the merged result, or the local fallback
\* when a chunk call raised (the except of process_text_with_chatgpt)
EnhanceReturn ==
    /\ phase = "suspended" /\ Cur.op = "enhance"
    /\ \E r \in {"enhanced", "fallback"} :
        loc' = [loc EXCEPT !.processed_content = r]
    /\ Pipeline("running", pc + 1)
    /\ UNCHANGED <<note, sess, pdfThread, progHist, ghost>>

\* OCR: a placeholder when the service is missing, else run_in_executor
Ocr ==
    /\ At("ocr")
    /\ \E available \in BOOLEAN :
        IF available
        THEN /\ Pipeline("suspended", pc)
             /\ ghost' = Issued(ghost, "ocr")
             /\ UNCHANGED loc
        ELSE /\ Pipeline("running", pc + 1)
             /\ loc' = [loc EXCEPT !.extracted_text = OcrUnavailableText]
             /\ UNCHANGED ghost
    /\ UNCHANGED <<note, sess, pdfThread, progHist>>

\* the executor returns: text, blank text (main.py raises), or the adapter
\* raised
OcrReturn ==
    /\ phase = "suspended" /\ Cur.op = "ocr"
    /\ UNCHANGED <<note, sess, pdfThread, progHist>>
    /\ \E outcome \in {"text", "empty", "raise"} :
        IF outcome = "text"
        THEN /\ Pipeline("running", pc + 1)
             /\ loc' = [loc EXCEPT !.extracted_text = "ocr_text"]
             /\ UNCHANGED ghost
        ELSE RaiseExtraction /\ UNCHANGED loc

\* if not CHATGPT_AVAILABLE or chatgpt_service is None: raise Exception(...)
RequireChat ==
    /\ At("require_chat")
    /\ UNCHANGED <<note, sess, loc, pdfThread, progHist>>
    /\ \E available \in BOOLEAN :
        IF available THEN Pipeline("running", pc + 1) /\ UNCHANGED ghost
                     ELSE RaiseExtraction

\* await process_images_with_gpt4_vision(...): no await inside, the event
\* loop is held for the whole call.  Without a client it returns a notice;
\* else message.content of the answer (which may be empty), or it raises.
\* The call transcribes and enhances at once.
Vision ==
    /\ At("vision")
    /\ UNCHANGED <<note, sess, pdfThread, progHist>>
    /\ \E client \in BOOLEAN, outcome \in {"text", "empty", "raise"} :
        LET entered == [ghost EXCEPT !.enhanceBegan = TRUE,
                                     !.textAtEnhance = note.text]
            began == IF client THEN Issued(entered, "vision") ELSE entered IN
        IF ~client \/ outcome # "raise"
        THEN /\ Pipeline("running", pc + 1)
             /\ loc' = [loc EXCEPT !.processed_content =
                            IF ~client THEN NoClientVisionText
                            ELSE IF outcome = "text" THEN "vision_text"
                            ELSE ""]
             /\ ghost' = [began EXCEPT !.extract =
                              IF client /\ outcome = "empty" THEN "empty"
                                                             ELSE @]
        ELSE /\ Pipeline("handler", pc)
             /\ ghost' = [Raised(began) EXCEPT !.extract = "raised"]
             /\ UNCHANGED loc

\* an assignment to the in-memory object followed by db.commit()
Store(obj) ==
    /\ note' = Flush(note, sess, obj)
    /\ sess' = note'
    /\ Pipeline("running", pc + 1)
    /\ UNCHANGED <<loc, pdfThread, progHist, ghost>>

StoreText ==
    /\ At("store_text")
    /\ Store([sess EXCEPT !.text = loc.extracted_text])

\* (variant: the enhanced text is not committed before the next stage)
SkipStore ==
    /\ At("store_processed")
    /\ Pipeline("running", pc + 1)
    /\ UNCHANGED <<note, sess, loc, pdfThread, progHist, ghost>>

StoreProcessed ==
    /\ At("store_processed")
    /\ Store([sess EXCEPT !.processed_content = loc.processed_content])

StoreBoth ==
    /\ At("store_both")
    /\ Store([sess EXCEPT !.text = "Processed images with GPT-4 Vision",
                          !.processed_content = loc.processed_content])

\* chatgpt_service.generate_flashcards(self, text, topics, total_cards,
\* max_per_topic=4) as called with the keywords of main.py:385-390
GenerateFlashcardsParams == {"text", "topics", "total_cards", "max_per_topic"}
CallKeywords == {"text", "topics", "total_cards", "min_per_topic"}
CallBinds == CallKeywords \subseteq GenerateFlashcardsParams

\* (variant: the exception of the flashcard call is not caught)
FlashcardsUncaught ==
    /\ At("flashcards")
    /\ Pipeline("handler", pc)
    /\ ghost' = [Raised(ghost) EXCEPT !.flash = "raised"]
    /\ UNCHANGED <<note, sess, loc, pdfThread, progHist>>

\* await maybe_generate_flashcards_for_note(db, db_note, processed_content,
\* settings): generate_flashcards has no await inside, so the stage never
\* yields; a call that raises (here: TypeError on the unknown keyword) is
\* printed and the stage returns
Flashcards ==
    /\ At("flashcards")
    /\ Pipeline("running", pc + 1)
    /\ UNCHANGED <<loc, pdfThread, progHist>>
    /\ IF loc.processed_content \in {NULL, ""} \/ ~settings.generate_flashcards
       THEN /\ ghost' = [ghost EXCEPT !.flash = "skipped"]
            /\ UNCHANGED <<note, sess>>
       ELSE IF ~CallBinds
       THEN /\ ghost' = [ghost EXCEPT !.flash = "raised"]
            /\ UNCHANGED <<note, sess>>
       ELSE \E cards \in {<< >>, <<[id |-> 0, source |-> "ai"]>>} :
            IF cards = << >>
            THEN /\ ghost' = [Issued(ghost, "flashcards") EXCEPT
                                  !.flash = "empty"]
                 /\ UNCHANGED <<note, sess>>
            ELSE LET manual == SelectSeq(sess.flashcards,
                                         LAMBDA c : c.source = "manual") IN
                 /\ note' = Flush(note, sess,
                                  [sess EXCEPT !.flashcards = manual \o cards])
                 /\ sess' = note'
                 /\ ghost' = [Issued(ghost, "flashcards") EXCEPT
                                  !.flash = "written"]

\* pdf_success = await loop.run_in_executor(executor, generate_pdf_sync_wrapper)
Pdf ==
    /\ At("pdf")
    /\ pdfThread' = "submitted"
    /\ Pipeline("suspended", pc)
    /\ ghost' = Issued(ghost, "pdf")
    /\ UNCHANGED <<note, sess, loc, progHist>>

\* (variant: a path is recorded whether or not the PDF was compiled)
RecordedAnyway(row, compiled) ==
    IF row.processed_content \notin {NULL, ""}
    THEN [row EXCEPT !.pdf_path = "pdf"]
    ELSE row

\* the row after ensure_note_exports(force=True, formats=["pdf"]) and the
\* assignments of the wrapper: _generate_pdf_assets assigns note.pdf_path
\* after the compilation, and its exception is caught in ensure_note_exports
RecordedPdf(row, compiled) ==
    IF row.processed_content \notin {NULL, ""} /\ compiled
    THEN [row EXCEPT !.pdf_path = "pdf"]
    ELSE row

\* generate_pdf_sync_wrapper in the worker thread, with its own session:
\* ensure_note_exports(force=True, formats=["pdf"]) records the paths when
\* the LaTeX conversion and the compilation succeed, swallows their failure,
\* and returns {} for empty processed_content; the wrapper commits and
\* returns True in all three cases
generate_pdf_sync_wrapper ==
    /\ pdfThread = "submitted"
    /\ \E compiled \in BOOLEAN :
        /\ note' = RecordedPdf(note, compiled)
        /\ ghost' = [ghost EXCEPT
                         !.pdf =
                             IF note.processed_content \in {NULL, ""}
                             THEN "skipped"
                             ELSE IF compiled THEN "compiled" ELSE "failed",
                         !.compiledOn =
                             IF note.processed_content \notin {NULL, ""}
                                    /\ compiled
                             THEN @ \cup {"executor"} ELSE @]
    /\ pdfThread' = "returned_true"
    /\ lastAct' = "thread"
    /\ UNCHANGED <<enumMembers, sess, route, settings, phase, pc, loc,
                   cancelLog, progHist>>
    /\ UNCHANGED libVars

\* the await of the executor future completes
PdfReturn ==
    /\ phase = "suspended" /\ Cur.op = "pdf"
    /\ pdfThread = "returned_true"
    /\ pdfThread' = "idle"
    /\ loc' = [loc EXCEPT !.pdf_success = TRUE]
    /\ Pipeline("running", pc + 1)
    /\ UNCHANGED <<note, sess, progHist, ghost>>

\* if pdf_success: db.refresh(db_note); final_message = ...
\* update_note_progress(db, db_note, 100, final_message, COMPLETED); return
Finish ==
    /\ At("finish")
    /\ LET fresh == IF loc.pdf_success THEN note ELSE sess
           msg == IF loc.pdf_success THEN "Completed"
                  ELSE "Enhanced notes ready (PDF export unavailable)"
           obj == update_note_progress(fresh, 100, msg, "COMPLETED") IN
       /\ note' = Flush(note, fresh, obj)
       /\ sess' = note'
       /\ progHist' = IF obj # fresh THEN Append(progHist, obj.progress)
                                     ELSE progHist
    /\ Pipeline("returned", pc)
    /\ UNCHANGED <<loc, pdfThread, ghost>>

\* except Exception as e: ... finally: db.close()
\* The guard reads the in-memory status; evaluating it raises AttributeError
\* out of the except block when the enumeration has no CANCELLED member.
Handler ==
    /\ phase = "handler"
    /\ UNCHANGED <<loc, pdfThread, ghost>>
    /\ IF ~HasMember("CANCELLED")
       THEN /\ Pipeline("crashed", pc)
            /\ UNCHANGED <<note, sess, progHist>>
       ELSE /\ Pipeline("returned", pc)
            /\ IF sess.status # "CANCELLED"
               THEN /\ note' = Flush(note, sess, HandlerAssign(sess))
                    /\ sess' = note'
                    /\ progHist' = Append(progHist, 0)
               ELSE UNCHANGED <<note, sess, progHist>>

----------------------------------------------------------------------------
(* Request handlers on the same row.  They are coroutines of the event     *)
(* loop without an await in their body: they run only while no pipeline    *)
(* segment is running, and atomically.                                     *)

LoopFree == phase \notin {"running", "handler"}

\* what the pipeline was doing when a request arrived
Stage ==
    CASE phase = "queued"    -> "queued"
      [] phase = "suspended" -> Cur.op
      [] OTHER               -> "after"

User ==
    /\ note.exists
    /\ LoopFree
    /\ lastAct' = "user"
    /\ UNCHANGED <<enumMembers, sess, route, settings, phase, pc, loc, pdfThread>>
    /\ UNCHANGED libVars

\* POST /notes/{id}/cancel.  The first test builds the set
\* {ProcessingStatus.COMPLETED, ProcessingStatus.CANCELLED}: AttributeError
\* (a 500 response, nothing written) when CANCELLED is no member.
cancel_note_processing ==
    /\ User
    /\ Len(cancelLog) < MaxCancels
    /\ LET out == IF ~HasMember("CANCELLED") THEN "500"
                  ELSE CancelOutcome(note.status) IN
       /\ cancelLog' = Append(cancelLog, [pre |-> note.status, out |-> out])
       /\ IF out = "200"
          THEN /\ note' = [note EXCEPT !.status = "CANCELLED", !.progress = 0,
                                       !.progress_message = CancelMessage]
               /\ progHist' = Append(progHist, 0)
               /\ ghost' = [ghost EXCEPT !.cancelled = TRUE,
                                         !.cancelStage = Stage]
          ELSE UNCHANGED <<note, progHist, ghost>>

\* POST /notes/{id}/flashcards
add_manual_flashcard ==
    /\ User
    /\ ghost.cardsAdded < MaxCards
    /\ note' = [note EXCEPT !.flashcards =
                   Append(@, [id |-> ghost.cardsAdded + 1, source |-> "manual"])]
    /\ ghost' = [ghost EXCEPT !.cardsAdded = @ + 1]
    /\ UNCHANGED <<cancelLog, progHist>>

\* DELETE /notes/{id}/flashcards/{card_id}
delete_flashcard ==
    /\ User
    /\ \E i \in 1..Len(note.flashcards) :
        note' = [note EXCEPT !.flashcards =
                    SelectSeq(@, LAMBDA c : c.id # note.flashcards[i].id)]
    /\ UNCHANGED <<cancelLog, progHist, ghost>>

\* PATCH /notes/{id}/metadata
update_note_metadata ==
    /\ User
    /\ ghost.edits < MaxEdits
    /\ \E name \in {NULL, "project"} :
        /\ name # note.project_name
        /\ note' = [note EXCEPT !.project_name = name]
    /\ ghost' = [ghost EXCEPT !.edits = @ + 1]
    /\ UNCHANGED <<cancelLog, progHist>>

\* the thread that runs the body of an "async def" request handler, in which
\* generate_pdf calls ensure_note_exports without await or executor
ExportThread == "loop"

\* POST /notes/{id}/generate-pdf and /generate-txt: 400 without processed
\* content; else ensure_note_exports(force=True, formats=[fmt]) and commit
generate_export ==
    /\ User
    /\ ghost.edits < MaxEdits
    /\ note.processed_content \notin {NULL, ""}
    /\ \E fmt \in {"pdf_path", "txt_path"}, ok \in BOOLEAN :
        /\ note' = IF ok THEN [note EXCEPT ![fmt] = fmt] ELSE note
        /\ ghost' = [ghost EXCEPT
                         !.edits = @ + 1,
                         !.compiledOn = IF ok /\ fmt = "pdf_path"
                                        THEN @ \cup {ExportThread} ELSE @]
    /\ UNCHANGED <<cancelLog, progHist>>

----------------------------------------------------------------------------
(* On-demand exports.  ensure_note_exports on one processed note: the row  *)
(* (processed_content and the recorded path per format), the files on disk *)
(* (which text each was generated from), and the deployment (which         *)
(* optional services were importable).  The output path of a format is     *)
(* fixed by the note's slug, so regeneration overwrites the same file.     *)

Formats == {"pdf", "docx", "txt"}
NoFile == "none"
NoCall == [made |-> FALSE]

\* _note_export_slug and the generators' output_dir / f"{slug}.{ext}"
SlugPath(f) == <<"generated_pdfs", "note_1_user", f>>

\* export_file_exists(note.<f>_path): a recorded path whose file is there
export_file_exists(n, d, f) == n.path[f] # NULL /\ d[f] # NoFile

\* requested_formats = set(formats or ["pdf", "docx", "txt"])
Requested(formats) == IF formats = {} THEN Formats ELSE formats

\* (variant: the existing artifact is not looked at)
NeedAlways(n, d, force, formats, f) == f \in Requested(formats)

\* need_<f> = wants_<f> and (force or not export_file_exists(note.<f>_path))
Need(n, d, force, formats, f) ==
    f \in Requested(formats) /\ (force \/ ~export_file_exists(n, d, f))

\* (variant: docx and txt are generated without looking at the deployment)
GateIgnored(f, env) == TRUE

\* "if export_service:" around docx and txt, "and DOCX_AVAILABLE" for docx;
\* the PDF block calls _generate_pdf_assets unconditionally
GateOpen(f, env) ==
    CASE f = "pdf"  -> TRUE
      [] f = "docx" -> env.export_service /\ env.DOCX_AVAILABLE
      [] f = "txt"  -> env.export_service

\* the order of the three blocks in ensure_note_exports
BlockOrder == <<"pdf", "docx", "txt">>

\* (variant: the first failure leaves ensure_note_exports)
StopsAfterFailure(f, failedEarlier) == failedEarlier = {}

\* every block is a try/except Exception of its own that prints and goes
\* on: control reaches the block of f whatever failed before it
Reaches(f, failedEarlier) == TRUE

\* the generator of f raises: _generate_pdf_assets when the LaTeX services
\* are missing or the compilation reports an error, generate_docx and
\* generate_txt when writing the file fails (fails: the formats whose
\* generation fails in this call)
Raises(f, env, fails) == f \in fails \/ (f = "pdf" /\ ~env.pdf_services)

\* the formats whose generator a call invokes, in block order
RECURSIVE InvokedUpTo(_, _, _, _, _, _, _)
InvokedUpTo(k, n, d, env, force, formats, fails) ==
    IF k = 0 THEN {}
    ELSE LET f == BlockOrder[k]
             earlier == InvokedUpTo(k - 1, n, d, env, force, formats, fails)
             failedEarlier == {g \in earlier : Raises(g, env, fails)}
         IN IF Reaches(f, failedEarlier) /\ Need(n, d, force, formats, f)
                 /\ GateOpen(f, env)
            THEN earlier \cup {f}
            ELSE earlier

\* ensure_note_exports(note, force=force, formats=formats): the note and
\* the disk afterwards, the generators invoked, those that raised, and the
\* formats that have an entry in the returned map
ensure_note_exports(n, d, env, force, formats, fails) ==
    IF n.content \in {NULL, ""}
    THEN [note |-> n, disk |-> d, invoked |-> {}, failed |-> {}, exports |-> {}]
    ELSE LET invoked == InvokedUpTo(3, n, d, env, force, formats, fails)
             failed == {f \in invoked : Raises(f, env, fails)}
             done == invoked \ failed
         IN [note |-> [n EXCEPT !.path = [f \in Formats |->
                           IF f \in done THEN SlugPath(f) ELSE n.path[f]]],
             disk |-> [f \in Formats |->
                           IF f \in done THEN n.content ELSE d[f]],
             invoked |-> invoked,
             failed |-> failed,
             exports |-> done]

ExpIdle == [note |-> [content |-> NULL, path |-> [f \in Formats |-> NULL]],
            disk |-> [f \in Formats |-> NoFile],
            env |-> [export_service |-> TRUE, DOCX_AVAILABLE |-> TRUE,
                     pdf_services |-> TRUE],
            calls |-> 0, prev |-> NoCall, last |-> NoCall]

\* the optional imports of main.py: export_service and DOCX_AVAILABLE come
\* from one module (both missing when its import fails); the LaTeX service
\* and the PDF compiler from another
Deployments ==
    {[export_service |-> e, DOCX_AVAILABLE |-> x, pdf_services |-> l] :
        e \in BOOLEAN, x \in BOOLEAN, l \in BOOLEAN} \ 
    {[export_service |-> FALSE, DOCX_AVAILABLE |-> TRUE, pdf_services |-> l] :
        l \in BOOLEAN}

\* a call of ensure_note_exports by a handler that then commits
\* (upload_note_to_drive: force=False; generate_pdf / generate_docx /
\* generate_txt and generate_pdf_sync_wrapper: force=True)
EnsureExports ==
    /\ exp.calls < MaxExportCalls
    /\ \E force \in BOOLEAN, formats \in CallFormats, fails \in CallFailures :
        LET r == ensure_note_exports(exp.note, exp.disk, exp.env,
                                     force, formats, fails)
        IN exp' = [exp EXCEPT
                !.note = r.note,
                !.disk = r.disk,
                !.calls = @ + 1,
                !.prev = exp.last,
                !.last = [made |-> TRUE, force |-> force, formats |-> formats,
                          pre |-> [note |-> exp.note, disk |-> exp.disk],
                          post |-> [note |-> r.note, disk |-> r.disk],
                          invoked |-> r.invoked, failed |-> r.failed,
                          exports |-> r.exports]]
    /\ UNCHANGED <<mainVars, chk, enh, fbk, fls, ckp, ltx, prg, drv, rty>>

\* a generated file is removed out of band (os.path.exists turns false)
DeleteExportFile ==
    /\ \E f \in Formats :
        /\ exp.disk[f] # NoFile
        /\ exp' = [exp EXCEPT !.disk[f] = NoFile]
    /\ UNCHANGED <<mainVars, chk, enh, fbk, fls, ckp, ltx, prg, drv, rty>>

\* the except block of the OCR and vision pipelines replaces
\* processed_content by the failure text (a statement after the PDF stage
\* raised, e.g. a commit of the final update)
FailureTextWritten ==
    /\ exp.note.content = "enhanced"
    /\ exp' = [exp EXCEPT !.note.content = FailedMessage]
    /\ UNCHANGED <<mainVars, chk, enh, fbk, fls, ckp, ltx, prg, drv, rty>>

----------------------------------------------------------------------------
(* ChatGPTService._split_text_into_chunks.  A text is a sequence of        *)
(* characters; the alphabet has two letters and the newline.               *)

NL == "\n"
Alphabet == {"a", "b", NL}
Whitespace == {NL, " ", "\t", "\r"}

\* the texts of length at most n
RECURSIVE TextsUpTo(_)
TextsUpTo(n) ==
    IF n = 0 THEN {<< >>}
    ELSE LET shorter == TextsUpTo(n - 1)
         IN shorter \cup {Append(t, c) : t \in {u \in shorter : Len(u) = n - 1},
                                         c \in Alphabet}

\* str.split("\n\n"): cut at the leftmost occurrences, without overlap
RECURSIVE SplitParagraphs(_)
SplitParagraphs(t) ==
    LET breaks == {i \in 1..Len(t) - 1 : t[i] = NL /\ t[i + 1] = NL}
    IN IF breaks = {} THEN <<t>>
       ELSE LET i == CHOOSE i \in breaks : \A j \in breaks : i <= j
            IN <<SubSeq(t, 1, i - 1)>> \o SplitParagraphs(SubSeq(t, i + 2, Len(t)))

\* str.strip()
RECURSIVE LStrip(_)
LStrip(t) == IF t # << >> /\ t[1] \in Whitespace THEN LStrip(Tail(t)) ELSE t
RECURSIVE RStrip(_)
RStrip(t) ==
    IF t # << >> /\ t[Len(t)] \in Whitespace
    THEN RStrip(SubSeq(t, 1, Len(t) - 1)) ELSE t
Strip(t) == LStrip(RStrip(t))

\* "".join(parts)
RECURSIVE Join(_)
Join(parts) == IF parts = << >> THEN << >> ELSE parts[1] \o Join(Tail(parts))

\* (variant: a paragraph is always added to the current chunk)
AddParagraphNoLimit(st, para, limit) ==
    [st EXCEPT !.current_chunk = Append(@, para \o <<NL, NL>>),
               !.current_length = @ + Len(para) + 2]

\* (variant: the paragraph that overflows the current chunk is dropped)
AddParagraphDropped(st, para, limit) ==
    IF st.current_length + Len(para) + 2 > limit /\ st.current_chunk # << >>
    THEN [chunks |-> Append(st.chunks, st.current_chunk),
          current_chunk |-> << >>, current_length |-> 0]
    ELSE [st EXCEPT !.current_chunk = Append(@, para \o <<NL, NL>>),
                    !.current_length = @ + Len(para) + 2]

\* the body of "for para in paragraphs": chunks holds the closed chunks (as
\* the lists of para_with_break they are joined from), current_chunk the
\* open one
AddParagraph(st, para, limit) ==
    LET para_with_break == para \o <<NL, NL>>
        para_length == Len(para_with_break)
    IN IF st.current_length + para_length > limit /\ st.current_chunk # << >>
       THEN [chunks |-> Append(st.chunks, st.current_chunk),
             current_chunk |-> <<para_with_break>>,
             current_length |-> para_length]
       ELSE [chunks |-> st.chunks,
             current_chunk |-> Append(st.current_chunk, para_with_break),
             current_length |-> st.current_length + para_length]

\* the loop over the first k paragraphs
RECURSIVE Accumulate(_, _, _)
Accumulate(paragraphs, k, limit) ==
    IF k = 0
    THEN [chunks |-> << >>, current_chunk |-> << >>, current_length |-> 0]
    ELSE AddParagraph(Accumulate(paragraphs, k - 1, limit), paragraphs[k], limit)

\* the lists of paragraphs (with their breaks) that are joined into chunks,
\* the last one by "if current_chunk: chunks.append(...)"
ParagraphGroups(text, limit) ==
    LET paragraphs == SplitParagraphs(text)
        st == Accumulate(paragraphs, Len(paragraphs), limit)
    IN IF st.current_chunk # << >> THEN Append(st.chunks, st.current_chunk)
                                   ELSE st.chunks

\* _split_text_into_chunks(text, max_chars) for max_chars >= 1
split_text_into_chunks(text, limit) ==
    IF Len(text) <= limit THEN <<text>>
    ELSE LET groups == ParagraphGroups(text, limit)
             joined == [i \in 1..Len(groups) |-> Strip(Join(groups[i]))]
         IN SelectSeq(joined, LAMBDA chunk : chunk # << >>)

ChkIdle == [text |-> << >>, limit |-> 0, done |-> FALSE, chunks |-> << >>]

\* chunks = self._split_text_into_chunks(text, limit)
SplitText ==
    /\ ~chk.done
    /\ chk.limit > 0
    /\ chk' = [chk EXCEPT !.done = TRUE,
                          !.chunks = split_text_into_chunks(chk.text, chk.limit)]
    /\ UNCHANGED <<mainVars, exp, enh, fbk, fls, ckp, ltx, prg, drv, rty>>

----------------------------------------------------------------------------
(* ChatGPTService.process_text_with_chatgpt for one job: the chunk tasks   *)
(* that asyncio.gather runs, the semaphore created for this call, the      *)
(* calls in flight in executor threads, and the value returned.  A second  *)
(* job in its own enhancement stage is present through the number of its   *)
(* calls in flight, behind the semaphore of its own call.                  *)

\* max(1, int(os.getenv("OPENAI_PARALLEL_REQUESTS", "3")))
max_parallel_requests == 3

InFlight(e) == {i \in 1..e.n : e.task[i] = "inflight"}

\* (variant: the chunk calls do not wait for the semaphore)
NoGate(e) == TRUE

\* "async with semaphore" can be entered; the single chunk of a short text
\* is sent without a semaphore
GateFree(e) == e.n = 1 \/ e.permits > 0

\* (variant: the responses in the order the calls completed)
CompletionOrderResults(e) ==
    [k \in 1..Len(e.order) |-> [idx |-> e.order[k], r |-> e.result[e.order[k]]]]

\* chunk_results = await asyncio.gather(*tasks): the responses in the order
\* of the tasks, whatever order they completed in
GatherResults(e) == [i \in 1..e.n |-> [idx |-> i, r |-> e.result[i]]]

\* _merge_chunk_responses: the responses that are neither None nor blank,
\* stripped and joined by "\n\n" (here: which chunks' responses, in order)
merge_chunk_responses(chunk_responses) ==
    LET cleaned == SelectSeq(chunk_responses, LAMBDA c : c.r = "text")
    IN [k \in 1..Len(cleaned) |-> cleaned[k].idx]

\* (variant: the exception of a chunk call leaves process_text_with_chatgpt)
Propagate == "raised"

\* "except Exception as e: ... return self._create_fallback_enhanced_text"
OnChunkError == "fallback"

EnhIdle == [started |-> FALSE, client |-> FALSE, n |-> 0,
            task |-> << >>, result |-> << >>, order |-> << >>,
            permits |-> 0, ret |-> "none", merged |-> << >>, other |-> 0]

\* the call begins: without a client the local fallback is returned, for a
\* blank text "", else one task per chunk is created (with a semaphore of
\* its own when there are two or more chunks)
StartEnhancement ==
    /\ ~enh.started
    /\ enh' = [enh EXCEPT
            !.started = TRUE,
            !.ret = IF ~enh.client THEN "fallback"
                    ELSE IF enh.n = 0 THEN "empty" ELSE "none",
            !.task = IF enh.client THEN [i \in 1..enh.n |-> "pending"] ELSE @,
            !.result = IF enh.client THEN [i \in 1..enh.n |-> "none"] ELSE @,
            !.permits = IF enh.client /\ enh.n > 1
                        THEN max_parallel_requests ELSE 0]
    /\ UNCHANGED <<mainVars, exp, chk, fbk, fls, ckp, ltx, prg, drv, rty>>

\* a chunk task enters the semaphore and hands its call to an executor
\* thread (_process_chunk_async)
AcquireSemaphore ==
    /\ enh.started
    /\ \E i \in 1..enh.n :
        /\ enh.task # << >> /\ enh.task[i] = "pending"
        /\ GateFree(enh)
        /\ enh' = [enh EXCEPT !.task[i] = "inflight",
                              !.permits = IF enh.n > 1 THEN @ - 1 ELSE @]
    /\ UNCHANGED <<mainVars, exp, chk, fbk, fls, ckp, ltx, prg, drv, rty>>

\* the call of a chunk ends and its task leaves the semaphore
ChunkEnds(i, state, r) ==
    /\ enh.started /\ enh.task # << >>
    /\ enh.task[i] = "inflight"
    /\ enh' = [enh EXCEPT !.task[i] = state,
                          !.result[i] = r,
                          !.order = Append(@, i),
                          !.permits = IF enh.n > 1 THEN @ + 1 ELSE @]
    /\ UNCHANGED <<mainVars, exp, chk, fbk, fls, ckp, ltx, prg, drv, rty>>

\* _call_openai_for_chunk returns message.content: text, or a blank or
\* missing content
ChunkReturns ==
    \E i \in 1..enh.n, r \in {"text", "blank"} : ChunkEnds(i, "done", r)

\* _call_openai_for_chunk raises
ChunkRaises == \E i \in 1..enh.n : ChunkEnds(i, "failed", "none")

\* every task is done: the single response is returned as it is, several
\* are merged
GatherReturns ==
    /\ enh.started /\ enh.ret = "none" /\ enh.n > 0
    /\ \A i \in 1..enh.n : enh.task[i] = "done"
    /\ enh' = [enh EXCEPT
            !.ret = IF enh.n = 1 THEN "single" ELSE "merged",
            !.merged = IF enh.n = 1 THEN <<1>>
                       ELSE merge_chunk_responses(GatherResults(enh))]
    /\ UNCHANGED <<mainVars, exp, chk, fbk, fls, ckp, ltx, prg, drv, rty>>

\* the first exception of a task reaches the await (the other tasks go on)
GatherRaises ==
    /\ enh.started /\ enh.ret = "none" /\ enh.n > 0
    /\ \E i \in 1..enh.n : enh.task[i] = "failed"
    /\ enh' = [enh EXCEPT !.ret = OnChunkError]
    /\ UNCHANGED <<mainVars, exp, chk, fbk, fls, ckp, ltx, prg, drv, rty>>

\* a chunk call of another job enters / leaves that job's semaphore
OtherJobAcquires ==
    /\ enh.other < max_parallel_requests
    /\ enh' = [enh EXCEPT !.other = @ + 1]
    /\ UNCHANGED <<mainVars, exp, chk, fbk, fls, ckp, ltx, prg, drv, rty>>

OtherJobReleases ==
    /\ enh.other > 0
    /\ enh' = [enh EXCEPT !.other = @ - 1]
    /\ UNCHANGED <<mainVars, exp, chk, fbk, fls, ckp, ltx, prg, drv, rty>>

----------------------------------------------------------------------------
(* ChatGPTService._create_fallback_enhanced_text.  Texts are sequences of  *)
(* characters; the literals of the source are kept by their first          *)
(* characters and one letter for the rest.  "=" is the rule character      *)
(* U+2550 and "-" the bullet U+2022 of the source.                         *)

NoteAlphabet == {"a", "#", "=", " ", NL}

RECURSIVE NotesUpTo(_)
NotesUpTo(n) ==
    IF n = 0 THEN {<< >>}
    ELSE LET shorter == NotesUpTo(n - 1)
         IN shorter \cup {Append(t, c) : t \in {u \in shorter : Len(u) = n - 1},
                                         c \in NoteAlphabet}

\* "# <memo> Enhanced Notes\n\n<rule>\n\n", the rule a row of U+2550
HeaderBanner == <<"#", " ", "E", NL, NL, "=", "=", "=", NL, NL>>
\* the bullet U+2022 and a space
BulletMarker == <<"-", " ">>
\* "\n\n**Additional Context:** ... **Next Steps:** ..."
ExpandSuffix == <<NL, NL, "*", "C">>
\* "**Summary:** "
SummaryPrefix == <<"*", "S">>
\* "\n\n<rule>\n\n" between the summary and the text
SummaryRule == <<NL, NL, "=", "=", "=", NL, NL>>
\* text[:100]
summary_chars == 100

\* str.split('\n')
RECURSIVE SplitLines(_)
SplitLines(t) ==
    LET nls == {i \in 1..Len(t) : t[i] = NL}
    IN IF nls = {} THEN <<t>>
       ELSE LET i == CHOOSE i \in nls : \A j \in nls : i <= j
            IN <<SubSeq(t, 1, i - 1)>> \o SplitLines(SubSeq(t, i + 1, Len(t)))

\* '\n'.join(lines)
RECURSIVE JoinLines(_)
JoinLines(lines) ==
    IF Len(lines) = 0 THEN << >>
    ELSE IF Len(lines) = 1 THEN lines[1]
    ELSE lines[1] \o <<NL>> \o JoinLines(Tail(lines))

\* (variant: no line gets a bullet)
KeepLine(line) == line

\* the body of "for line in lines": a non-blank line that starts neither
\* with '#' nor with the rule character becomes bullet + line.strip()
BulletLine(line) ==
    IF Strip(line) # << >> /\ line[1] \notin {"#", "="}
    THEN BulletMarker \o Strip(line)
    ELSE line

create_fallback_enhanced_text(text, opts) ==
    LET headed == IF opts.add_headers THEN HeaderBanner \o text ELSE text
        lines == SplitLines(headed)
        bulleted == IF opts.add_bullet_points
                    THEN JoinLines([i \in 1..Len(lines) |-> BulletLine(lines[i])])
                    ELSE headed
        expanded == IF opts.expand THEN bulleted \o ExpandSuffix ELSE bulleted
        summary == IF Len(text) > summary_chars
                   THEN SummaryPrefix \o SubSeq(text, 1, summary_chars)
                            \o <<".", ".", ".">>
                   ELSE SummaryPrefix \o text
    IN IF opts.summarize THEN summary \o SummaryRule \o expanded
                             ELSE expanded

FbkIdle == [text |-> << >>,
            settings |-> [add_headers |-> FALSE, add_bullet_points |-> FALSE,
                          expand |-> FALSE, summarize |-> FALSE],
            done |-> FALSE, out |-> << >>]

\* return self._create_fallback_enhanced_text(text, settings)
CreateFallback ==
    /\ ~fbk.done
    /\ fbk' = [fbk EXCEPT !.done = TRUE,
                          !.out = create_fallback_enhanced_text(fbk.text,
                                                                fbk.settings)]
    /\ UNCHANGED <<mainVars, exp, chk, enh, fls, ckp, ltx, prg, drv, rty>>

----------------------------------------------------------------------------
(* The flashcard stage: maybe_generate_flashcards_for_note on one note,    *)
(* with ChatGPTService.generate_flashcards and _parse_flashcard_response.  *)
(* A topic is a string, "" a blank one; a card of the backend's answer is  *)
(* [topic, term, definition], the last two TRUE when non-blank.            *)

Min(a, b) == IF a < b THEN a ELSE b
Max(a, b) == IF a > b THEN a ELSE b

\* the card limit of both functions
card_cap == 50

\* [topic.strip() for topic in topics if topic and topic.strip()]
NonBlank(topics) == SelectSeq(topics, LAMBDA t : t # "")

\* ProcessingSettings.__init__: max(1, max_flashcards_per_topic or 4)
SettingsPerTopic(given) == Max(1, IF given = 0 THEN 4 ELSE given)

AnswerCard(topic, term, def) == [topic |-> topic, term |-> term, def |-> def]

\* what the backend may answer: text that json.loads rejects, or a list
Answer(json, list) == [json |-> json, list |-> list]

Answers ==
    { Answer(FALSE, << >>),
      Answer(TRUE, << >>),
      Answer(TRUE, <<AnswerCard("t1", TRUE, TRUE)>>),
      Answer(TRUE, <<AnswerCard("t1", TRUE, FALSE),
                     AnswerCard("t2", TRUE, TRUE)>>),
      Answer(TRUE, <<AnswerCard("t1", TRUE, TRUE), AnswerCard("t1", TRUE, TRUE),
                     AnswerCard("t1", TRUE, TRUE), AnswerCard("t2", TRUE, TRUE),
                     AnswerCard("", TRUE, TRUE)>>) }

TopicLists == {<< >>, <<"">>, <<"t1">>, <<"t1", "t2">>}

TopicCount(cards, topic) ==
    Cardinality({i \in 1..Len(cards) : cards[i].topic = topic})

\* _parse_flashcard_response: the loop over the parsed entries up to entry k
RECURSIVE ParseUpTo(_, _, _, _)
ParseUpTo(parsed, k, total_cards, per_topic_limit) ==
    IF k = 0 THEN << >>
    ELSE LET cards == ParseUpTo(parsed, k - 1, total_cards, per_topic_limit)
             entry == parsed[k]
         IN IF Len(cards) >= total_cards /\ Len(cards) > 0 THEN cards
            ELSE IF entry.topic = "" \/ ~entry.term \/ ~entry.def THEN cards
            ELSE IF TopicCount(cards, entry.topic) >= per_topic_limit THEN cards
            ELSE Append(cards, entry)

parse_flashcard_response(raw, total_cards, per_topic_limit) ==
    IF ~raw.json THEN << >>
    ELSE ParseUpTo(raw.list, Len(raw.list), total_cards, per_topic_limit)

\* the body of ChatGPTService.generate_flashcards
generate_flashcards(text, topics, total_cards, max_per_topic, client, raw) ==
    IF text = "" \/ ~client THEN << >>
    ELSE LET prepared_topics == NonBlank(topics) IN
         IF prepared_topics = << >> THEN << >>
         ELSE parse_flashcard_response(
                  raw,
                  Min(card_cap, Max(total_cards, Len(prepared_topics))),
                  Max(1, max_per_topic))

\* topics = settings.flashcard_topics or settings.focus_topics or []
StageTopics(st) ==
    NonBlank(IF st.flashcard_topics # << >> THEN st.flashcard_topics
                                            ELSE st.focus_topics)

\* (variant: the stage does not look at generate_flashcards)
ReachesCallAnyway(f) == f.service /\ StageTopics(f.settings) # << >>

\* the four early returns of maybe_generate_flashcards_for_note
ReachesCall(f) ==
    /\ f.text # ""
    /\ f.settings.generate_flashcards
    /\ f.service
    /\ StageTopics(f.settings) # << >>

\* desired_count, per_topic_min and total_cards of the stage; the settings
\* object has no min_flashcards_per_topic, so getattr gives None
StagePerTopic(st) == Max(1, st.max_flashcards_per_topic)

StageTotal(st) ==
    LET topics == StageTopics(st)
        desired_count == IF st.flashcard_count # 0 THEN st.flashcard_count
                                                   ELSE Len(topics)
    IN Min(Max(Len(topics) * StagePerTopic(st), desired_count), card_cap)

\* the keyword arguments of the call at main.py:385-390
StageCall(f) ==
    [text |-> f.text, topics |-> StageTopics(f.settings),
     total_cards |-> StageTotal(f.settings),
     min_per_topic |-> StagePerTopic(f.settings)]

NotAsked == [made |-> FALSE]

\* existing_manual + ai_cards
WithBatch(cards, batch) ==
    SelectSeq(cards, LAMBDA c : c.source = "manual")
        \o [i \in 1..Len(batch) |->
               [id |-> 100 + i, topic |-> batch[i].topic, source |-> "ai"]]

\* maybe_generate_flashcards_for_note: the call made, how it ended
\* ("TypeError" when the keywords do not bind to the parameters, which the
\* except of the stage swallows), the cards it returned and the note's
\* list afterwards
maybe_generate_flashcards_for_note(f) ==
    IF ~ReachesCall(f)
    THEN [asked |-> NotAsked, outcome |-> "skipped", batch |-> << >>,
          cards |-> f.cards]
    ELSE LET call == StageCall(f)
             asked == [made |-> TRUE] @@ call
         IN IF ~CallBinds
            THEN [asked |-> asked, outcome |-> "TypeError", batch |-> << >>,
                  cards |-> f.cards]
            ELSE LET batch == generate_flashcards(call.text, call.topics,
                                  call.total_cards, call.min_per_topic,
                                  f.client, f.answer)
                 IN [asked |-> asked, outcome |-> "returned", batch |-> batch,
                     cards |-> IF batch = << >> THEN f.cards
                               ELSE WithBatch(f.cards, batch)]

FlsIdle ==
    [text |-> "", service |-> FALSE, client |-> FALSE, answer |-> << >>,
     settings |-> [generate_flashcards |-> FALSE, flashcard_topics |-> << >>,
                   focus_topics |-> << >>, flashcard_count |-> 0,
                   max_flashcards_per_topic |-> 4],
     cards |-> << >>, before |-> << >>, after |-> << >>, added |-> 0,
     stage |-> "idle",
     asked |-> NotAsked, outcome |-> "none", batch |-> << >>]

\* POST /notes/{id}/flashcards on the note of the stage; a request handler
\* runs before or after the stage, never inside it: generate_flashcards is
\* an "async def" without an await
AddManualCard ==
    /\ fls.stage # "idle"
    /\ fls.added < MaxCards
    /\ fls' = [fls EXCEPT
                 !.cards = Append(@, [id |-> fls.added + 1, topic |-> "t1",
                                      source |-> "manual"]),
                 !.added = @ + 1]
    /\ UNCHANGED <<mainVars, exp, chk, enh, fbk, ckp, ltx, prg, drv, rty>>

\* await maybe_generate_flashcards_for_note(db, db_note, processed_content,
\* processing_settings), db_note refreshed by the checkpoint before it
FlashcardStage ==
    /\ fls.stage = "ready"
    /\ LET r == maybe_generate_flashcards_for_note(fls) IN
       fls' = [fls EXCEPT !.stage = "done", !.before = fls.cards,
                          !.asked = r.asked, !.outcome = r.outcome,
                          !.batch = r.batch,
                          !.cards = r.cards, !.after = r.cards]
    /\ UNCHANGED <<mainVars, exp, chk, enh, fbk, ckp, ltx, prg, drv, rty>>

----------------------------------------------------------------------------
(* The cancellation checkpoint _refresh_note_and_check_cancelled on one    *)
(* record: the persisted status, the status on the pipeline's in-memory    *)
(* object, and whether db.refresh(note) succeeds.                          *)

\* (variant: the checkpoint tests the in-memory copy without re-reading)
check_cached(row, cached, refreshed) ==
    [ret |-> IF cached.status = "CANCELLED" THEN "True" ELSE "False",
     obj |-> cached]

\* _refresh_note_and_check_cancelled(db, note): the value returned and the
\* in-memory object afterwards; "except Exception: return False" when the
\* refresh raises
refresh_note_and_check_cancelled(row, cached, refreshed) ==
    IF ~refreshed THEN [ret |-> "False", obj |-> cached]
    ELSE IF ~HasMember("CANCELLED") THEN [ret |-> "AttributeError", obj |-> row]
    ELSE [ret |-> IF IsCancelled(row) THEN "True" ELSE "False", obj |-> row]

\* the progress values a pipeline has persisted when it takes a checkpoint
CheckpointProgress ==
    UNION {{P[i].p : i \in 1..Len(P)} :
               P \in {TextProgram, ImageProgram, MultiProgram}}

CkpRow(progress) ==
    [status |-> "PROCESSING", progress |-> progress, project_name |-> NULL]

CkpIdle == [row |-> CkpRow(0), obj |-> CkpRow(0),
            cancelled |-> FALSE, edits |-> 0, checks |-> 0,
            pipeline |-> "idle", last |-> [made |-> FALSE]]

\* POST /notes/{id}/cancel committed while the pipeline is suspended
CancelCommitted ==
    /\ ckp.pipeline = "running"
    /\ CancelOutcome(ckp.row.status) = "200"
    /\ ckp' = [ckp EXCEPT !.row.status = "CANCELLED", !.row.progress = 0,
                          !.cancelled = TRUE]
    /\ UNCHANGED <<mainVars, exp, chk, enh, fbk, fls, ltx, prg, drv, rty>>

\* PATCH /notes/{id}/metadata committed while the pipeline is suspended
MetadataCommitted ==
    /\ ckp.pipeline = "running"
    /\ ckp.edits < MaxEdits
    /\ ckp' = [ckp EXCEPT !.row.project_name = "project", !.edits = @ + 1]
    /\ UNCHANGED <<mainVars, exp, chk, enh, fbk, fls, ltx, prg, drv, rty>>

\* if _refresh_note_and_check_cancelled(db, db_note): return
Checkpoint ==
    /\ ckp.pipeline = "running"
    /\ ckp.checks < MaxChecks
    /\ \E refreshed \in BOOLEAN :
        LET r == refresh_note_and_check_cancelled(ckp.row, ckp.obj, refreshed)
        IN ckp' = [ckp EXCEPT
                     !.obj = r.obj,
                     !.checks = @ + 1,
                     !.pipeline = CASE r.ret = "True" -> "returned"
                                    [] r.ret = "False" -> "running"
                                    [] OTHER -> "raised",
                     !.last = [made |-> TRUE, refreshed |-> refreshed,
                               row |-> ckp.row, obj |-> ckp.obj,
                               ret |-> r.ret]]
    /\ UNCHANGED <<mainVars, exp, chk, enh, fbk, fls, ltx, prg, drv, rty>>

----------------------------------------------------------------------------
(* LaTeXService.generate_latex_document.  A document is a sequence of      *)
(* lines and a line is one of: "dc" (\documentclass...), "bd"              *)
(* (\begin{document}), "ed" (\end{document}), "fence" (```), "bt"          *)
(* (\begin{theorem}), "nt" (\newtheorem{theorem}{Theorem}), "txt" (any     *)
(* other text) and "" (a blank line).  << >> is the empty string.  Of the  *)
(* four theorem-like environments of the source, theorem stands for all.   *)

LatexLines == {"dc", "bd", "ed", "fence", "bt", "nt", "txt", ""}

DocsUpTo(n) == UNION {[1..k -> LatexLines] : k \in 0..n}

\* str.lstrip / str.rstrip / str.strip on lines
RECURSIVE LStripLines(_)
LStripLines(s) == IF s # << >> /\ s[1] = "" THEN LStripLines(Tail(s)) ELSE s

RECURSIVE RStripLines(_)
RStripLines(s) ==
    IF s # << >> /\ s[Len(s)] = "" THEN RStripLines(SubSeq(s, 1, Len(s) - 1))
    ELSE s

StripLines(s) == RStripLines(LStripLines(s))

\* str.find: the first line that is the mark, 0 for -1
FindLine(s, mark) ==
    IF \E i \in 1..Len(s) : s[i] = mark
    THEN CHOOSE i \in 1..Len(s) :
             s[i] = mark /\ \A j \in 1..(i - 1) : s[j] # mark
    ELSE 0

\* if latex_content.startswith("```"): drop the first line, and the last
\* one when it is a bare fence
StripFence(s) ==
    IF s # << >> /\ s[1] = "fence"
    THEN LET lines == Tail(s)
         IN IF lines # << >> /\ lines[Len(lines)] = "fence"
            THEN SubSeq(lines, 1, Len(lines) - 1)
            ELSE lines
    ELSE s

EndsWithEnd(s) ==
    LET t == StripLines(s) IN t # << >> /\ t[Len(t)] = "ed"

\* if not latex_content.strip().endswith("\\end{document}"): append it
EnsureEnd(s) ==
    IF EndsWithEnd(s) THEN s
    ELSE IF RStripLines(s) = << >> THEN <<"", "", "ed">>
    ELSE RStripLines(s) \o <<"", "ed">>

StartsWithClass(s) == s # << >> /\ s[1] = "dc"

wrap_in_document_structure(latex_body) ==
    <<"dc", "txt", "nt", "txt", "bd", "txt", "">> \o latex_body
        \o <<"", "ed", "">>

ensure_theorem_environments(latex_content) ==
    LET has(mark) == \E i \in 1..Len(latex_content) : latex_content[i] = mark
        insert_at == FindLine(latex_content, "bd")
    IN IF ~(has("bt") /\ ~has("nt")) THEN latex_content
       ELSE IF insert_at = 0 THEN <<"", "nt">> \o latex_content
       ELSE SubSeq(latex_content, 1, insert_at - 1) \o <<"", "nt">>
                \o SubSeq(latex_content, insert_at, Len(latex_content))

\* the fallback template around the converted note content
generate_basic_latex(content) ==
    <<"dc", "txt", "nt", "txt", "bd", "txt">> \o content \o <<"", "ed", "">>

NoteContent == <<"txt">>

\* client: whether the OpenAI client was built; raises: whether the
\* completion call (or reading its content) raises; response: the content
\* of the answer
generate_latex_document(client, raises, response) ==
    IF ~client \/ raises THEN generate_basic_latex(NoteContent)
    ELSE LET stripped == StripLines(response)
             unfenced == StripFence(stripped)
             ended    == EnsureEnd(unfenced)
             framed   == IF StartsWithClass(ended) THEN ended
                         ELSE wrap_in_document_structure(ended)
         IN ensure_theorem_environments(framed)

LtxIdle == [client |-> FALSE, raises |-> FALSE, response |-> << >>,
            done |-> FALSE, doc |-> << >>]

\* _generate_pdf_assets: latex_content = generate_latex_document(...)
GenerateLatex ==
    /\ ~ltx.done
    /\ ltx' = [ltx EXCEPT
                 !.done = TRUE,
                 !.doc = generate_latex_document(ltx.client, ltx.raises,
                                                 ltx.response)]
    /\ UNCHANGED <<mainVars, exp, chk, enh, fbk, fls, ckp, prg, drv, rty>>

----------------------------------------------------------------------------
(* update_note_progress, cancel_note_processing and the except block on    *)
(* one row, with progress arguments inside and outside 0..100 (the         *)
(* pipelines themselves pass the literals of the instruction tables only). *)

ProgressArgs ==
    ((0 - MaxOver)..(0 - 1)) \cup {0, 5, 50, 100} \cup (101..(100 + MaxOver))

PrgIdle == [row |-> NewRow("raw", "Queued for processing", NULL),
            calls |-> 0,
            last |-> [made |-> FALSE, p |-> 0, stored |-> FALSE]]

\* update_note_progress(db, note, p, m, st) while the task runs
UpdateProgress ==
    /\ prg.calls < MaxUpdates
    /\ prg.row.status \in {"PROCESSING", "CANCELLED"}
    /\ \E p \in ProgressArgs, m \in {NULL, "Working..."},
          st \in {NULL, "COMPLETED"} :
        LET obj == update_note_progress(prg.row, p, m, st)
        IN prg' = [row |-> obj,
                   calls |-> prg.calls + 1,
                   last |-> [made |-> TRUE, p |-> p,
                             stored |-> ~(prg.row.status = "CANCELLED"
                                            /\ st = NULL)]]
    /\ UNCHANGED <<mainVars, exp, chk, enh, fbk, fls, ckp, ltx, drv, rty>>

\* POST /notes/{id}/cancel on the row
CancelRow ==
    /\ CancelOutcome(prg.row.status) = "200"
    /\ prg' = [prg EXCEPT !.row.status = "CANCELLED", !.row.progress = 0,
                          !.row.progress_message = CancelMessage,
                          !.last.made = FALSE]
    /\ UNCHANGED <<mainVars, exp, chk, enh, fbk, fls, ckp, ltx, drv, rty>>

\* the except block of a pipeline on the row
ErrorRow ==
    /\ prg.row.status = "PROCESSING"
    /\ prg' = [prg EXCEPT !.row = HandlerAssign(prg.row),
                          !.last.made = FALSE]
    /\ UNCHANGED <<mainVars, exp, chk, enh, fbk, fls, ckp, ltx, drv, rty>>

----------------------------------------------------------------------------
(* The Google Drive OAuth states: the module-level dict drive_auth_states, *)
(* _cleanup_drive_states, _remember_drive_state and _consume_drive_state.  *)
(* The clock is datetime.now(timezone.utc) in seconds, advancing in steps  *)
(* of TickSeconds.  A state string comes from secrets.token_urlsafe(32),   *)
(* so each remember uses a string not issued before; the callback receives *)
(* any string.                                                             *)

DRIVE_STATE_TTL_SECONDS == 600
TickSeconds == DRIVE_STATE_TTL_SECONDS \div 2

StateStrings == {"s1", "s2", "s3"}
UserIds == {"u1", "u2"}

NoEntry == [present |-> FALSE, user_id |-> NULL, created_at |-> 0]

\* drive_auth_states without the entries created before now - TTL
cleanup_drive_states(states, now) ==
    LET cutoff == now - DRIVE_STATE_TTL_SECONDS
    IN [k \in DOMAIN states |->
           IF states[k].present /\ states[k].created_at < cutoff
           THEN NoEntry ELSE states[k]]

remember_drive_state(states, now, state, user_id) ==
    [cleanup_drive_states(states, now) EXCEPT
        ![state] = [present |-> TRUE, user_id |-> user_id,
                    created_at |-> now]]

\* (variant: the entry is read with get and stays in the dict)
consume_without_pop(states, now, state) ==
    LET data == states[state]
    IN [states |-> states,
        ret |-> IF ~data.present THEN NULL
                ELSE IF now - data.created_at > DRIVE_STATE_TTL_SECONDS
                THEN NULL
                ELSE data.user_id]

\* the dict after the pop, and the value returned (NULL for None)
consume_drive_state(states, now, state) ==
    LET data == states[state]
    IN [states |-> [states EXCEPT ![state] = NoEntry],
        ret |-> IF ~data.present THEN NULL
                ELSE IF now - data.created_at > DRIVE_STATE_TTL_SECONDS
                THEN NULL
                ELSE data.user_id]

DrvIdle == [now |-> 0,
            states |-> [k \in StateStrings |-> NoEntry],
            issued |-> {},
            uses |-> [k \in StateStrings |-> 0],
            last |-> [made |-> FALSE, state |-> "s1", ret |-> NULL,
                      at |-> 0, data |-> NoEntry, removed |-> TRUE]]

\* time passes
ClockTick ==
    /\ drv.now < MaxClock * TickSeconds
    /\ drv' = [drv EXCEPT !.now = @ + TickSeconds]
    /\ UNCHANGED <<mainVars, exp, chk, enh, fbk, fls, ckp, ltx, prg, rty>>

\* GET /google-drive/auth-url: generate_state and _remember_drive_state
google_drive_auth_url ==
    /\ \E state \in StateStrings \ drv.issued, user_id \in UserIds :
        drv' = [drv EXCEPT
                  !.states = remember_drive_state(drv.states, drv.now,
                                                  state, user_id),
                  !.issued = @ \cup {state}]
    /\ UNCHANGED <<mainVars, exp, chk, enh, fbk, fls, ckp, ltx, prg, rty>>

\* GET /google-drive/callback with a state parameter: _consume_drive_state
google_drive_callback ==
    /\ \E state \in StateStrings :
        LET r == consume_drive_state(drv.states, drv.now, state)
        IN drv' = [drv EXCEPT
                     !.states = r.states,
                     !.uses[state] = IF r.ret # NULL THEN @ + 1 ELSE @,
                     !.last = [made |-> TRUE, state |-> state,
                               ret |-> r.ret, at |-> drv.now,
                               data |-> drv.states[state],
                               removed |-> ~r.states[state].present]]
    /\ UNCHANGED <<mainVars, exp, chk, enh, fbk, fls, ckp, ltx, prg, rty>>

----------------------------------------------------------------------------
(* DropboxService._retry_with_refresh.  The inputs of one call: whether    *)
(* self.dbx is set, whether method_name names a callable of the client,    *)
(* what the first and the second invocation of the method do ("ok",        *)
(* "AuthError", or "ApiError" for any other exception), and whether        *)
(* _refresh_access_token succeeds.                                         *)

MethodOutcomes == {"ok", "AuthError", "ApiError"}

RetryResult(calls, refreshes, result) ==
    [calls |-> calls, refreshes |-> refreshes, result |-> result]

\* (variant: the method is retried whether or not the refresh succeeded)
retry_after_any_refresh(client, callable, first, refresh, second) ==
    IF ~client THEN RetryResult(0, 0, "503")
    ELSE IF ~callable THEN RetryResult(0, 0, "500")
    ELSE IF first = "ok" THEN RetryResult(1, 0, "returned")
    ELSE IF first = "ApiError" THEN RetryResult(1, 0, "ApiError")
    ELSE IF second = "ok" THEN RetryResult(2, 1, "returned")
    ELSE IF second = "AuthError" THEN RetryResult(2, 1, "503")
    ELSE RetryResult(2, 1, "ApiError")

\* the number of invocations of the method, the number of token refreshes
\* and how the call ends: "returned", an HTTPException status, or the
\* exception of the method that is not caught
retry_with_refresh(client, callable, first, refresh, second) ==
    IF ~client THEN RetryResult(0, 0, "503")
    ELSE IF ~callable THEN RetryResult(0, 0, "500")
    ELSE IF first = "ok" THEN RetryResult(1, 0, "returned")
    ELSE IF first = "ApiError" THEN RetryResult(1, 0, "ApiError")
    ELSE IF ~refresh THEN RetryResult(1, 1, "503")
    ELSE IF second = "ok" THEN RetryResult(2, 1, "returned")
    ELSE IF second = "AuthError" THEN RetryResult(2, 1, "503")
    ELSE RetryResult(2, 1, "ApiError")

RtyIdle == [client |-> FALSE, callable |-> FALSE, first |-> "ok",
            refresh |-> FALSE, second |-> "ok", done |-> FALSE,
            out |-> RetryResult(0, 0, "none")]

\* one call self._retry_with_refresh(method_name, ...)
RetryWithRefresh ==
    /\ ~rty.done
    /\ rty' = [rty EXCEPT
                 !.done = TRUE,
                 !.out = retry_with_refresh(rty.client, rty.callable,
                                            rty.first, rty.refresh,
                                            rty.second)]
    /\ UNCHANGED <<mainVars, exp, chk, enh, fbk, fls, ckp, ltx, prg, drv>>

----------------------------------------------------------------------------
(* Specifications *)

\* the components are idle while the job pipeline is checked
LibIdle ==
    /\ exp = ExpIdle
    /\ chk = ChkIdle
    /\ enh = EnhIdle
    /\ fbk = FbkIdle
    /\ fls = FlsIdle
    /\ ckp = CkpIdle
    /\ ltx = LtxIdle
    /\ prg = PrgIdle
    /\ drv = DrvIdle
    /\ rty = RtyIdle

InitCommon ==
    /\ note = Absent
    /\ sess = Absent
    /\ route = "none"
    /\ settings = [generate_flashcards |-> FALSE]
    /\ phase = "absent"
    /\ pc = 0
    /\ loc = InitLoc
    /\ pdfThread = "idle"
    /\ cancelLog = << >>
    /\ progHist = << >>
    /\ ghost = InitGhost
    /\ lastAct = "none"

\* the program as written: ProcessingStatus of core/schemas.py
Init == InitCommon /\ enumMembers = ProcessingStatus /\ LibIdle

\* what can run when every reference to ProcessingStatus.CANCELLED raises
Next ==
    \/ create_note
    \/ upload_image_note
    \/ upload_multiple_images
    \/ Query
    \/ Check
    \/ Progress
    \/ Handler
    \/ cancel_note_processing
    \/ add_manual_flashcard
    \/ delete_flashcard
    \/ update_note_metadata

Spec == Init /\ [][Next]_vars

\* all steps of the program
NextAll ==
    \/ Next
    \/ Enhance
    \/ EnhanceReturn
    \/ Ocr
    \/ OcrReturn
    \/ RequireChat
    \/ Vision
    \/ CommitFails
    \/ StoreText
    \/ StoreProcessed
    \/ StoreBoth
    \/ Flashcards
    \/ Pdf
    \/ generate_pdf_sync_wrapper
    \/ PdfReturn
    \/ Finish
    \/ generate_export

\* the program as written under all of its steps: used to check that Next
\* leaves out no step that can be taken
SpecAll == Init /\ [][NextAll]_vars

\* the program with the member CANCELLED = "cancelled" that main.py refers to
InitCancellable ==
    InitCommon /\ enumMembers = ProcessingStatusWithCancelled /\ LibIdle

SpecCancellable == InitCancellable /\ [][NextAll]_vars

\* no step outside Next is ever enabled in the program as written
OnlyNextSteps ==
    /\ phase \in {"absent", "queued", "running", "handler", "crashed"}
    /\ phase = "running" => Cur.op \in {"check", "progress"}
    /\ pdfThread = "idle"
    /\ note.exists => note.processed_content = NULL

----------------------------------------------------------------------------
(* Specifications of the components *)

InitExports ==
    /\ InitCommon
    /\ enumMembers = ProcessingStatus
    /\ \E c \in {"", "enhanced"}, env \in Deployments :
        exp = [ExpIdle EXCEPT !.note.content = c, !.env = env]
    /\ chk = ChkIdle
    /\ enh = EnhIdle
    /\ fbk = FbkIdle
    /\ fls = FlsIdle
    /\ ckp = CkpIdle
    /\ ltx = LtxIdle
    /\ prg = PrgIdle
    /\ drv = DrvIdle
    /\ rty = RtyIdle

NextExports == EnsureExports \/ DeleteExportFile \/ FailureTextWritten

SpecExports == InitExports /\ [][NextExports]_vars

InitChunker ==
    /\ InitCommon
    /\ enumMembers = ProcessingStatus
    /\ exp = ExpIdle
    /\ enh = EnhIdle
    /\ fbk = FbkIdle
    /\ fls = FlsIdle
    /\ ckp = CkpIdle
    /\ ltx = LtxIdle
    /\ prg = PrgIdle
    /\ drv = DrvIdle
    /\ rty = RtyIdle
    /\ \E text \in TextsUpTo(MaxTextLen), limit \in 1..MaxChunkLimit :
        chk = [ChkIdle EXCEPT !.text = text, !.limit = limit]

NextChunker == SplitText

SpecChunker == InitChunker /\ [][NextChunker]_vars

InitEnhance ==
    /\ InitCommon
    /\ enumMembers = ProcessingStatus
    /\ exp = ExpIdle
    /\ chk = ChkIdle
    /\ fbk = FbkIdle
    /\ fls = FlsIdle
    /\ ckp = CkpIdle
    /\ ltx = LtxIdle
    /\ prg = PrgIdle
    /\ drv = DrvIdle
    /\ rty = RtyIdle
    /\ \E client \in BOOLEAN, n \in 0..MaxChunks :
        enh = [EnhIdle EXCEPT !.client = client, !.n = n]

NextEnhance ==
    \/ StartEnhancement
    \/ AcquireSemaphore
    \/ ChunkReturns
    \/ ChunkRaises
    \/ GatherReturns
    \/ GatherRaises
    \/ OtherJobAcquires
    \/ OtherJobReleases

SpecEnhance == InitEnhance /\ [][NextEnhance]_vars

InitFallback ==
    /\ InitCommon
    /\ enumMembers = ProcessingStatus
    /\ exp = ExpIdle
    /\ chk = ChkIdle
    /\ enh = EnhIdle
    /\ fls = FlsIdle
    /\ ckp = CkpIdle
    /\ ltx = LtxIdle
    /\ prg = PrgIdle
    /\ drv = DrvIdle
    /\ rty = RtyIdle
    /\ \E text \in NotesUpTo(MaxNoteLen),
          opts \in [add_headers : BOOLEAN, add_bullet_points : BOOLEAN,
                      expand : BOOLEAN, summarize : BOOLEAN] :
        fbk = [FbkIdle EXCEPT !.text = text, !.settings = opts]

NextFallback == CreateFallback

SpecFallback == InitFallback /\ [][NextFallback]_vars

InitFlashcards ==
    /\ InitCommon
    /\ enumMembers = ProcessingStatus
    /\ exp = ExpIdle
    /\ chk = ChkIdle
    /\ enh = EnhIdle
    /\ fbk = FbkIdle
    /\ ckp = CkpIdle
    /\ ltx = LtxIdle
    /\ prg = PrgIdle
    /\ drv = DrvIdle
    /\ rty = RtyIdle
    /\ \E text \in {"", "notes"}, service \in BOOLEAN, client \in BOOLEAN,
          answer \in Answers, gen \in BOOLEAN,
          ftopics \in TopicLists, focus \in {<< >>, <<"t2">>},
          count \in (0..MaxFlashcardCount) \cup {60},
          given \in 0..MaxPerTopic :
        fls = [FlsIdle EXCEPT
                 !.text = text, !.service = service, !.client = client,
                 !.answer = answer, !.stage = "ready",
                 !.settings = [generate_flashcards |-> gen,
                               flashcard_topics |-> ftopics,
                               focus_topics |-> focus,
                               flashcard_count |-> count,
                               max_flashcards_per_topic |->
                                   SettingsPerTopic(given)]]

NextFlashcards == FlashcardStage \/ AddManualCard

SpecFlashcards == InitFlashcards /\ [][NextFlashcards]_vars

\* the checkpoint with the member CANCELLED that it refers to
InitCheckpoint ==
    /\ InitCommon
    /\ enumMembers = ProcessingStatusWithCancelled
    /\ exp = ExpIdle
    /\ chk = ChkIdle
    /\ enh = EnhIdle
    /\ fbk = FbkIdle
    /\ fls = FlsIdle
    /\ ltx = LtxIdle
    /\ prg = PrgIdle
    /\ drv = DrvIdle
    /\ rty = RtyIdle
    /\ \E progress \in CheckpointProgress :
        ckp = [CkpIdle EXCEPT !.row = CkpRow(progress),
                              !.obj = CkpRow(progress),
                              !.pipeline = "running"]

NextCheckpoint == Checkpoint \/ CancelCommitted \/ MetadataCommitted

SpecCheckpoint == InitCheckpoint /\ [][NextCheckpoint]_vars

InitLatex ==
    /\ InitCommon
    /\ enumMembers = ProcessingStatusWithCancelled
    /\ exp = ExpIdle
    /\ chk = ChkIdle
    /\ enh = EnhIdle
    /\ fbk = FbkIdle
    /\ fls = FlsIdle
    /\ ckp = CkpIdle
    /\ prg = PrgIdle
    /\ drv = DrvIdle
    /\ rty = RtyIdle
    /\ \E client \in BOOLEAN, raises \in BOOLEAN,
          response \in DocsUpTo(MaxDocLines) :
        /\ (~client \/ raises) => response = << >>
        /\ ~client => ~raises
        /\ ltx = [LtxIdle EXCEPT !.client = client, !.raises = raises,
                                 !.response = response]

NextLatex == GenerateLatex

SpecLatex == InitLatex /\ [][NextLatex]_vars

InitProgress ==
    /\ InitCommon
    /\ enumMembers = ProcessingStatusWithCancelled
    /\ exp = ExpIdle
    /\ chk = ChkIdle
    /\ enh = EnhIdle
    /\ fbk = FbkIdle
    /\ fls = FlsIdle
    /\ ckp = CkpIdle
    /\ ltx = LtxIdle
    /\ prg = PrgIdle
    /\ drv = DrvIdle
    /\ rty = RtyIdle

NextProgress == UpdateProgress \/ CancelRow \/ ErrorRow

SpecProgress == InitProgress /\ [][NextProgress]_vars

InitDrive ==
    /\ InitCommon
    /\ enumMembers = ProcessingStatusWithCancelled
    /\ exp = ExpIdle
    /\ chk = ChkIdle
    /\ enh = EnhIdle
    /\ fbk = FbkIdle
    /\ fls = FlsIdle
    /\ ckp = CkpIdle
    /\ ltx = LtxIdle
    /\ prg = PrgIdle
    /\ drv = DrvIdle
    /\ rty = RtyIdle

NextDrive == ClockTick \/ google_drive_auth_url \/ google_drive_callback

SpecDrive == InitDrive /\ [][NextDrive]_vars

InitRetry ==
    /\ InitCommon
    /\ enumMembers = ProcessingStatusWithCancelled
    /\ exp = ExpIdle
    /\ chk = ChkIdle
    /\ enh = EnhIdle
    /\ fbk = FbkIdle
    /\ fls = FlsIdle
    /\ ckp = CkpIdle
    /\ ltx = LtxIdle
    /\ prg = PrgIdle
    /\ drv = DrvIdle
    /\ \E client \in BOOLEAN, callable \in BOOLEAN, refresh \in BOOLEAN,
          first \in MethodOutcomes, second \in MethodOutcomes :
        rty = [RtyIdle EXCEPT !.client = client, !.callable = callable,
                              !.first = first, !.refresh = refresh,
                              !.second = second]

NextRetry == RetryWithRefresh

SpecRetry == InitRetry /\ [][NextRetry]_vars

----------------------------------------------------------------------------
(* Properties *)

Terminal == {"COMPLETED", "ERROR", "CANCELLED"}
TaskEnded == phase \in {"returned", "crashed"}

NonDecreasing(h) == \A i \in 1..Len(h) - 1 : h[i] <= h[i + 1]

C2_CancelSurvivesLateError ==
    (ghost.raisedAfterCancel /\ phase = "returned") => note.status = "CANCELLED"

\* C3: a note whose persisted status is CANCELLED has progress 0 and the
\* fixed cancellation message, also after later progress updates of the
\* pipeline.
C3_CancelledProgressZero ==
    (note.exists /\ note.status = "CANCELLED")
        => (note.progress = 0 /\ note.progress_message = CancelMessage)

\* cancelled before the OCR/vision task started: the task then issued
\* update_note_progress(10, ...) on the cancelled note and returned
C3_Witness ==
    /\ route \in {"ocr", "vision"} /\ ghost.cancelStage = "queued"
    /\ phase = "returned" /\ note.status = "CANCELLED"

\* C4: a cancel request succeeds exactly when the stored status is
\* PROCESSING; on COMPLETED/CANCELLED it fails as already finished, on
\* ERROR as failed previously.
C4_CancelIffProcessing ==
    \A i \in 1..Len(cancelLog) :
        /\ (cancelLog[i].out = "200") <=> (cancelLog[i].pre = "PROCESSING")
        /\ cancelLog[i].pre \in {"COMPLETED", "CANCELLED"}
               => cancelLog[i].out = "400_finished"
        /\ cancelLog[i].pre = "ERROR" => cancelLog[i].out = "400_failed"

\* the input text was on the row and the enhancement call had not returned
\* when the cancel was persisted
CancelledBeforeEnhanced ==
    /\ ghost.cancelled
    /\ \/ route = "text" /\ ghost.cancelStage \in {"queued", "enhance"}
       \/ route = "ocr" /\ ghost.cancelStage = "enhance"

C6_NoWriteAfterCancel ==
    [][(note.exists /\ note.status = "CANCELLED"
            /\ lastAct' \in {"pipeline", "thread"}) => note' = note]_vars

\* C7: in a run that is neither cancelled nor failed the persisted progress
\* values are non-decreasing and within 0..100, and the run ends with 100
\* and COMPLETED.
C7_ProgressMonotone ==
    (~ghost.cancelled /\ ~ghost.raised)
        => /\ NonDecreasing(progHist)
           /\ \A i \in 1..Len(progHist) : progHist[i] \in 0..100
           /\ TaskEnded => /\ progHist[Len(progHist)] = 100
                           /\ note.status = "COMPLETED"
                           /\ note.progress = 100

C7_Witness ==
    /\ TaskEnded /\ ~ghost.cancelled /\ ~ghost.raised
    /\ note.status = "COMPLETED" /\ Len(progHist) = 6

\* C8: a persisted status COMPLETED or ERROR never changes again.
C8_CompletedErrorFinal ==
    [][(note.exists /\ note.status \in {"COMPLETED", "ERROR"})
            => note'.status = note.status]_vars

\* a cancel was refused on a finished and on a failed note
C8_Witness ==
    /\ note.exists
    /\ note.status \in {"COMPLETED", "ERROR"}
    /\ \E i \in 1..Len(cancelLog) : cancelLog[i].pre = note.status
    /\ ghost.edits > 0

\* C9: a created job whose background task has ended is in one of the
\* statuses COMPLETED, ERROR, CANCELLED (the task always ends: every step
\* moves it forward and every awaited call returns).
C9_EndsTerminal ==
    TaskEnded => note.status \in Terminal

\* C10 (as stated): the row a submit creates has status PENDING.
C10_CreatedPending ==
    [][(~note.exists /\ note'.exists) => note'.status = "PENDING"]_vars

\* C10 (amended): the row a submit creates has status PROCESSING and
\* progress 0, and PENDING is never persisted.
C10_CreatedProcessing ==
    [][/\ (~note.exists /\ note'.exists)
            => (note'.status = "PROCESSING" /\ note'.progress = 0)
       /\ note'.exists => note'.status # "PENDING"]_vars

C10_Witness ==
    note.exists /\ phase = "queued" /\ note.status = "PROCESSING"

----------------------------------------------------------------------------
(* Properties of ensure_note_exports (SpecExports) *)

\* the last call was made on a note with processed content
Exported == exp.last.made /\ exp.last.pre.note.content \notin {NULL, ""}

\* the artifact of f was recorded and on disk when the last call began
ExistedBefore(f) ==
    exp.last.pre.note.path[f] # NULL /\ exp.last.pre.disk[f] # NoFile

\* two calls in a row for txt with force=False, nothing changed in between
TxtTwice ==
    /\ exp.prev.made /\ Exported
    /\ ~exp.prev.force /\ ~exp.last.force
    /\ exp.prev.formats = {"txt"} /\ exp.last.formats = {"txt"}
    /\ exp.last.pre = exp.prev.post
    /\ exp.prev.pre.note.content = exp.last.pre.note.content

\* C11 (as stated): of two non-forced txt calls in a row exactly one invokes
\* the generator, and the second call's returned map holds the txt location.
C11_SecondCallReturnsLocation ==
    TxtTwice => /\ ("txt" \in exp.prev.invoked) # ("txt" \in exp.last.invoked)
                /\ "txt" \in exp.last.exports

\* C11 (amended): when the first of two non-forced txt calls in a row
\* generated the file, the second invokes no generator, changes neither the
\* row nor the disk, so the recorded txt path is still the one the first
\* call recorded, and returns an empty map.
C11_SecondCallNoOp ==
    (TxtTwice /\ "txt" \in exp.prev.exports)
        => /\ exp.last.invoked = {}
           /\ exp.last.post = exp.last.pre
           /\ exp.note.path["txt"] = exp.prev.post.note.path["txt"]
           /\ exp.note.path["txt"] = SlugPath("txt")
           /\ exp.last.exports = {}

C11_Witness ==
    /\ TxtTwice /\ "txt" \in exp.prev.exports
    /\ exp.prev.pre.note.path["txt"] = NULL

\* C12 (as stated): a call on a note with processed content invokes the
\* generator of every requested format exactly when force is set or the
\* recorded artifact does not exist.
C12_InvokedIffForcedOrMissing ==
    Exported =>
        \A f \in Requested(exp.last.formats) :
            f \in exp.last.invoked <=> (exp.last.force \/ ~ExistedBefore(f))

\* C12 (amended): the same, for the formats whose service the deployment
\* has (pdf always; txt with the export service; docx with the export
\* service and python-docx); the generators of the others are never
\* invoked, and no generator of a format that was not requested is.
C12_InvokedIffAvailable ==
    Exported =>
        \A f \in Formats :
            f \in exp.last.invoked <=>
                /\ f \in Requested(exp.last.formats)
                /\ exp.last.force \/ ~ExistedBefore(f)
                /\ f = "txt" => exp.env.export_service
                /\ f = "docx" => exp.env.export_service /\ exp.env.DOCX_AVAILABLE

\* a recorded path whose file was deleted is regenerated without force
C12_Witness ==
    /\ Exported /\ ~exp.last.force
    /\ \E f \in exp.last.exports :
        exp.last.pre.note.path[f] # NULL /\ exp.last.pre.disk[f] = NoFile

\* C13: in a call where the generation of a format failed, every other
\* requested format that needed generation was still attempted, the failed
\* format has no entry in the returned map, and its recorded path is the
\* one from before the call.
C13_FailureIsolated ==
    (Exported /\ exp.last.failed # {}) =>
        /\ \A f \in Requested(exp.last.formats) :
               (/\ exp.last.force \/ ~ExistedBefore(f)
                /\ GateOpen(f, exp.env)) => f \in exp.last.invoked
        /\ exp.last.failed \cap exp.last.exports = {}
        /\ \A f \in exp.last.failed :
               exp.last.post.note.path[f] = exp.last.pre.note.path[f]

\* the PDF generation failed and the txt block after it generated its file
C13_Witness ==
    /\ Exported
    /\ "pdf" \in exp.last.failed
    /\ "txt" \in exp.last.exports

\* C14: a non-forced call that skips a requested format because its
\* artifact exists, skips an artifact that was generated from the note's
\* current processed_content.
C14_SkipsOnlyCurrentArtifact ==
    (Exported /\ ~exp.last.force) =>
        \A f \in Requested(exp.last.formats) :
            (ExistedBefore(f) /\ f \notin exp.last.invoked)
                => exp.last.pre.disk[f] = exp.last.pre.note.content

----------------------------------------------------------------------------
(* Properties of _split_text_into_chunks (SpecChunker) *)

\* the paragraphs of a text with their surrounding whitespace trimmed, blank
\* paragraphs left out
TrimmedParagraphs(t) ==
    LET ps == SplitParagraphs(t)
    IN SelectSeq([i \in 1..Len(ps) |-> Strip(ps[i])], LAMBDA q : q # << >>)

RECURSIVE ParagraphsOfChunks(_)
ParagraphsOfChunks(chunks) ==
    IF chunks = << >> THEN << >>
    ELSE TrimmedParagraphs(chunks[1]) \o ParagraphsOfChunks(Tail(chunks))

\* C15: a text no longer than the limit comes back as the one chunk equal
\* to it; for a longer text the paragraphs of the chunks, read in chunk
\* order, are the paragraphs of the text in their order (whitespace around
\* a paragraph trimmed, blank paragraphs not counted).
C15_ChunksReconstructText ==
    chk.done =>
        IF Len(chk.text) <= chk.limit
        THEN chk.chunks = <<chk.text>>
        ELSE ParagraphsOfChunks(chk.chunks) = TrimmedParagraphs(chk.text)

\* three paragraphs spread over more than one chunk
C15_Witness ==
    /\ chk.done /\ Len(chk.text) > chk.limit
    /\ Len(chk.chunks) >= 2
    /\ Len(TrimmedParagraphs(chk.text)) = 3
    /\ \E i \in 1..Len(chk.chunks) : Len(TrimmedParagraphs(chk.chunks[i])) = 2

\* C16: for a text longer than the limit the chunks are joined from whole
\* paragraphs (the groups, in order, are the paragraphs of the text, each
\* with its break), a chunk of two or more paragraphs is no longer than
\* the limit, and a paragraph longer than the limit is alone in its chunk.
C16_ChunksAreWholeParagraphs ==
    (chk.done /\ Len(chk.text) > chk.limit) =>
        LET groups == ParagraphGroups(chk.text, chk.limit)
            paragraphs == SplitParagraphs(chk.text)
        IN /\ Join(groups) = [i \in 1..Len(paragraphs) |->
                                  paragraphs[i] \o <<NL, NL>>]
           /\ chk.chunks = SelectSeq([i \in 1..Len(groups) |->
                                          Strip(Join(groups[i]))],
                                     LAMBDA c : c # << >>)
           /\ \A i \in 1..Len(groups) :
                /\ Len(groups[i]) >= 1
                /\ Len(groups[i]) >= 2 => Len(Strip(Join(groups[i]))) <= chk.limit
                /\ \A k \in 1..Len(groups[i]) :
                       Len(groups[i][k]) - 2 > chk.limit => Len(groups[i]) = 1

\* a paragraph longer than the limit in a chunk of its own, followed by a
\* paragraph that fits the limit
C16_Witness ==
    /\ chk.done /\ Len(chk.text) > chk.limit
    /\ LET groups == ParagraphGroups(chk.text, chk.limit)
       IN /\ Len(groups) = 2 /\ Len(chk.chunks) = 2
          /\ Len(groups[1]) = 1 /\ Len(groups[1][1]) - 2 > chk.limit
          /\ Len(groups[2][1]) <= chk.limit

----------------------------------------------------------------------------
(* Properties of process_text_with_chatgpt (SpecEnhance) *)

Dispatched == enh.started /\ enh.client /\ enh.n > 0
Failed == {i \in 1..enh.n : enh.task[i] = "failed"}

\* C17: at most max_parallel_requests chunk calls of the job are in flight
\* at any moment; the semaphore counts only the job's own calls (its free
\* permits are the limit minus the job's calls in flight), whatever number
\* of calls another job has in flight behind its own semaphore.
C17_InFlightWithinLimit ==
    /\ enh.other <= max_parallel_requests
    /\ Dispatched =>
        /\ Cardinality(InFlight(enh)) <= max_parallel_requests
        /\ enh.n > 1 =>
               enh.permits = max_parallel_requests - Cardinality(InFlight(enh))

\* the gate holds a chunk back while both jobs have the limit in flight
C17_Witness ==
    /\ Dispatched
    /\ Cardinality(InFlight(enh)) = max_parallel_requests
    /\ \E i \in 1..enh.n : enh.task[i] = "pending"
    /\ enh.other = max_parallel_requests

\* C18: the merged text holds the non-blank chunk responses in ascending
\* chunk order, each once, whatever order the calls completed in.
C18_MergeKeepsChunkOrder ==
    (Dispatched /\ enh.ret = "merged") =>
        /\ \A k \in 1..Len(enh.merged) - 1 : enh.merged[k] < enh.merged[k + 1]
        /\ {enh.merged[k] : k \in 1..Len(enh.merged)}
               = {i \in 1..enh.n : enh.result[i] = "text"}

\* a later chunk completed first and a blank response was skipped
C18_Witness ==
    /\ Dispatched /\ enh.ret = "merged"
    /\ Len(enh.merged) >= 2
    /\ enh.order[1] > enh.order[2]
    /\ \E i \in 1..enh.n : enh.result[i] = "blank"

\* C19: without a client, or once a chunk call has raised, the call
\* returns the local fallback; it never raises.
C19_BackendFailureFallsBack ==
    /\ enh.ret # "raised"
    /\ (enh.started /\ ~enh.client) => enh.ret = "fallback"
    /\ (Dispatched /\ Failed # {}) => enh.ret \in {"none", "fallback"}
    /\ (Dispatched /\ Failed # {} /\ ~ENABLED GatherRaises) => enh.ret = "fallback"

\* a chunk call raised, the fallback was returned, another call still runs
C19_Witness ==
    /\ Dispatched /\ Failed # {} /\ enh.ret = "fallback"
    /\ InFlight(enh) # {}

----------------------------------------------------------------------------
(* Properties of _create_fallback_enhanced_text (SpecFallback) *)

LinesOf(t) == LET ls == SplitLines(t) IN {ls[i] : i \in 1..Len(ls)}

HeadersAndBullets ==
    fbk.done /\ fbk.settings.add_headers /\ fbk.settings.add_bullet_points

\* the two lines of the banner are lines of the output
HasBanner ==
    /\ <<"#", " ", "E">> \in LinesOf(fbk.out)
    /\ <<"=", "=", "=">> \in LinesOf(fbk.out)

\* C20 (as stated): with add_headers and add_bullet_points the output has
\* the header banner and, for every non-blank line of the text, that line
\* (stripped) behind the bullet marker.
C20_EveryLineBulleted ==
    HeadersAndBullets =>
        /\ HasBanner
        /\ \A line \in LinesOf(fbk.text) :
               Strip(line) # << >>
                   => BulletMarker \o Strip(line) \in LinesOf(fbk.out)

\* C20 (amended): the banner is there; every non-blank line of the text
\* that starts neither with '#' nor with the rule character is there
\* stripped behind the bullet marker; a line that starts with '#' or the
\* rule character is there unchanged.
C20_PlainLinesBulleted ==
    HeadersAndBullets =>
        /\ HasBanner
        /\ \A line \in LinesOf(fbk.text) :
               Strip(line) # << >> =>
                   IF line[1] \in {"#", "="}
                   THEN line \in LinesOf(fbk.out)
                   ELSE BulletMarker \o Strip(line) \in LinesOf(fbk.out)

\* a text with a plain line and a line that starts with '#'
C20_Witness ==
    /\ HeadersAndBullets
    /\ \E l1 \in LinesOf(fbk.text), l2 \in LinesOf(fbk.text) :
        /\ Strip(l1) # << >> /\ l1[1] = " "
        /\ l2 # << >> /\ l2[1] = "#"

----------------------------------------------------------------------------
(* Properties of the flashcard stage (SpecFlashcards) *)

StageDone == fls.stage = "done"
ManualOf(cards) == SelectSeq(cards, LAMBDA c : c.source = "manual")
AiOf(cards) == SelectSeq(cards, LAMBDA c : c.source = "ai")

\* the batch the backend holds for the request of the stage
NewBatch ==
    generate_flashcards(fls.text, StageTopics(fls.settings),
                        StageTotal(fls.settings), StagePerTopic(fls.settings),
                        fls.client, fls.answer)

ClaimedTotal ==
    Min(50, Max(Len(StageTopics(fls.settings)), fls.settings.flashcard_count))

\* C22: the stage asks for at most min(50, max(len(topics),
\* flashcard_count)) cards and at most max_flashcards_per_topic per topic,
\* and keeps no more than that.
C22_AsksAndKeepsWithinBound ==
    StageDone =>
        /\ fls.asked.made =>
              /\ fls.asked.total_cards <= ClaimedTotal
              /\ fls.asked.min_per_topic <= fls.settings.max_flashcards_per_topic
        /\ Len(AiOf(fls.after)) <= ClaimedTotal
        /\ \A t \in {"t1", "t2"} :
              TopicCount(AiOf(fls.after), t)
                  <= fls.settings.max_flashcards_per_topic

\* the condition of the claim, from the settings and the text
StageEnabled ==
    /\ fls.settings.generate_flashcards
    /\ \/ \E i \in 1..Len(fls.settings.flashcard_topics) :
              fls.settings.flashcard_topics[i] # ""
       \/ /\ fls.settings.flashcard_topics = << >>
          /\ \E j \in 1..Len(fls.settings.focus_topics) :
                 fls.settings.focus_topics[j] # ""
    /\ fls.text # ""

\* C28: the stage makes the backend call or changes the flashcards only if
\* generate_flashcards is set, a non-blank topic is present and the text is
\* non-empty; otherwise the list is as it was.
C28_StageOnlyWhenEnabled ==
    StageDone =>
        /\ (fls.asked.made \/ fls.after # fls.before) => StageEnabled
        /\ ~StageEnabled => (~fls.asked.made /\ fls.after = fls.before)

\* the stage has made the call with the focus topics, on a note that had a
\* manual card
C28_Witness ==
    /\ StageDone
    /\ fls.asked.made
    /\ fls.settings.flashcard_topics = << >>
    /\ fls.before # << >>

----------------------------------------------------------------------------
(* Properties of the error and export paths of the pipelines *)

ImageJob == route \in {"ocr", "vision"}

\* C23: an image-based job whose input extraction raised or returned no
\* text is kept and ends with status ERROR, progress 0, the failure as
\* progress_message and a non-null text.
C23_ExtractionFailureEndsError ==
    (ImageJob /\ ghost.extract \in {"raised", "empty"} /\ TaskEnded
              /\ ~ghost.cancelled) =>
        /\ note.exists
        /\ note.status = "ERROR"
        /\ note.progress = 0
        /\ note.progress_message = FailedMessage
        /\ note.text # NULL

\* C24: in a job that entered ERROR, the text and the enhanced text that
\* were persisted when the exception was raised have the values they had.
C24_ErrorKeepsPersistedOutputs ==
    (note.exists /\ note.status = "ERROR" /\ ghost.raised) =>
        /\ ghost.preError.text # NULL => note.text = ghost.preError.text
        /\ ghost.preError.processed_content # NULL =>
               note.processed_content = ghost.preError.processed_content

\* C25: a PDF generation that failed in the export stage records no pdf
\* artifact and does not make the job ERROR; unless it is cancelled the job
\* ends COMPLETED with progress 100.
C25_PdfFailureStillCompletes ==
    ghost.pdf = "failed" =>
        /\ note.status # "ERROR"
        /\ ghost.edits = 0 => note.pdf_path = NULL
        /\ (TaskEnded /\ ~ghost.cancelled) =>
               (note.status = "COMPLETED" /\ note.progress = 100)

C25_Witness ==
    /\ ghost.pdf = "failed"
    /\ TaskEnded
    /\ note.status = "COMPLETED" /\ note.progress = 100
    /\ note.pdf_path = NULL
    /\ route = "text"

\* C30: when the enhancement call of an image-based job begins, the
\* canonical input text is on the job record.
C30_TextPersistedBeforeEnhancement ==
    (ImageJob /\ ghost.enhanceBegan) => ghost.textAtEnhance # NULL

----------------------------------------------------------------------------
(* Properties of the cancellation checkpoint (SpecCheckpoint) *)

----------------------------------------------------------------------------
(* Properties of the fallback decision (SpecEnhance) *)

Succeeded == {i \in 1..enh.n : enh.task[i] = "done" /\ enh.result[i] = "text"}

\* C27: with credentials, a dispatch of several chunks in which at least
\* one chunk call succeeded does not return the local fallback of the whole
\* input.
C27_FallbackOnlyWhenAllFail ==
    (Dispatched /\ enh.n > 1 /\ Succeeded # {}) => enh.ret # "fallback"

----------------------------------------------------------------------------
(* Properties of generate_latex_document (SpecLatex) *)

StartsWithHeader(doc) == StripLines(doc) # << >> /\ StripLines(doc)[1] = "dc"

\* C29: every document that generate_latex_document returns starts with
\* the \documentclass header and ends with \end{document} (blank lines
\* around it aside), whatever the backend answered.
C29_ReturnedDocumentIsFramed ==
    ltx.done => StartsWithHeader(ltx.doc) /\ EndsWithEnd(ltx.doc)

----------------------------------------------------------------------------
(* Properties of the order of the stages and of the status and progress    *)
(* columns                                                                 *)

FlashStageBegun == ghost.flash # "none"
ExportBegun == pdfThread # "idle" \/ ghost.pdf # "none"
ExportFinished == pdfThread = "idle" /\ ghost.pdf # "none"
EnhancedPersisted ==
    note.processed_content # NULL
        /\ note.processed_content = loc.processed_content
Completed == note.exists /\ note.status = "COMPLETED"

C32_OutboundCallsSuspend ==
    [][ghost'.outbound # ghost.outbound => phase' = "suspended"]_vars

\* C33: no PDF compilation runs on the event-loop thread, neither the one
\* a pipeline starts nor the one an on-demand export request starts.
C33_CompilationOffLoop == "loop" \notin ghost.compiledOn

\* C34: the status of a job is always one of PENDING, PROCESSING,
\* COMPLETED, ERROR, CANCELLED, and each of the five is a member of the
\* enumeration that the pipelines and the handlers use.
C34_StatusInEnumeration ==
    /\ note.exists => note.status \in ProcessingStatusWithCancelled
    /\ ProcessingStatusWithCancelled \subseteq enumMembers

----------------------------------------------------------------------------
(* Properties of update_note_progress (SpecProgress) *)

\* C35: a progress update that is stored stores its argument clamped into
\* 0..100 (0 for a value below 0, 100 for a value above 100), and with
\* cancel and the error path the persisted progress always lies in 0..100.
C35_ProgressClamped ==
    /\ prg.row.progress \in 0..100
    /\ (prg.last.made /\ prg.last.stored) =>
           prg.row.progress = (IF prg.last.p < 0 THEN 0
                               ELSE IF prg.last.p > 100 THEN 100
                               ELSE prg.last.p)

C35_Witness ==
    /\ prg.last.made /\ prg.last.stored
    /\ prg.last.p > 100
    /\ prg.row.progress = 100
    /\ prg.calls > 1

----------------------------------------------------------------------------
(* Properties of the flashcard stage inside the pipelines *)

FlashFailed == ghost.flash \in {"raised", "empty"}

\* C36: a flashcard stage that fails (the backend call raises, or no valid
\* card comes back) returns to the pipeline without an exception and
\* leaves the record, its flashcard list included, as it was; a job that
\* is then neither cancelled nor hit by another failure ends COMPLETED.
C36_FlashcardFailureContained ==
    /\ [][(~FlashFailed /\ FlashFailed') =>
              /\ note' = note
              /\ phase' = "running" /\ pc' = pc + 1]_vars
    /\ []((FlashFailed /\ TaskEnded /\ ~ghost.cancelled /\ ~ghost.raised)
              => note.status = "COMPLETED")

C36_Witness ==
    /\ FlashFailed
    /\ TaskEnded
    /\ note.status = "COMPLETED"
    /\ note.flashcards # << >>

\* C37: the persisted progress of a job is 100 exactly when its status is
\* COMPLETED, and a job in status ERROR has progress 0.
C37_ProgressMatchesStatus ==
    note.exists =>
        /\ note.progress = 100 <=> note.status = "COMPLETED"
        /\ note.status = "ERROR" => note.progress = 0

C37_Witness ==
    /\ note.exists
    /\ note.status = "ERROR" /\ note.progress = 0
    /\ \E i \in 1..Len(progHist) : progHist[i] > 0
    /\ \A i \in 1..Len(progHist) : progHist[i] < 100

\* C38: a job is COMPLETED with the message "Completed" only if its PDF
\* was generated and recorded, and after a failed PDF generation the
\* message of the COMPLETED job is the "PDF export unavailable" one.
C38_CompletedMessageMeansPdf ==
    Completed =>
        /\ note.progress_message = "Completed" =>
               (ghost.pdf = "compiled" /\ note.pdf_path # NULL)
        /\ ghost.pdf = "failed" =>
               note.progress_message =
                   "Enhanced notes ready (PDF export unavailable)"

----------------------------------------------------------------------------
(* Properties of the Google Drive OAuth states (SpecDrive) *)

Expired(data, at) ==
    data.present /\ at - data.created_at > DRIVE_STATE_TTL_SECONDS

\* C39: an OAuth state is consumed successfully at most once; a successful
\* consume happens within 600 s of the state's creation and returns the
\* user id stored at creation; a consume after that time returns nothing,
\* and every consume leaves the state out of the dict.
C39_StateSingleUseWithinTtl ==
    /\ \A k \in StateStrings : drv.uses[k] <= 1
    /\ drv.last.made =>
        /\ drv.last.ret # NULL =>
               /\ drv.last.data.present
               /\ drv.last.ret = drv.last.data.user_id
               /\ drv.last.at - drv.last.data.created_at
                      <= DRIVE_STATE_TTL_SECONDS
        /\ Expired(drv.last.data, drv.last.at) => drv.last.ret = NULL
        /\ drv.last.removed

\* one state was consumed, a second try of it was refused, and another
\* state was refused after its time
C39_Witness ==
    /\ \E k \in StateStrings : drv.uses[k] = 1 /\ ~drv.states[k].present
    /\ drv.last.made /\ Expired(drv.last.data, drv.last.at)
    /\ drv.last.ret = NULL

----------------------------------------------------------------------------
(* Properties of _retry_with_refresh (SpecRetry) *)

RetryReady == rty.client /\ rty.callable

\* C40: one call of _retry_with_refresh invokes the method at most twice;
\* the second invocation happens exactly when the first raised an
\* authentication error and the token refresh then succeeded; a failed
\* refresh or a second authentication error ends the call with 503.
C40_AtMostOneRetry ==
    rty.done =>
        /\ rty.out.calls <= 2
        /\ rty.out.refreshes <= 1
        /\ rty.out.calls = 2 <=>
               (RetryReady /\ rty.first = "AuthError" /\ rty.refresh)
        /\ (RetryReady /\ rty.first = "AuthError"
                /\ (~rty.refresh \/ rty.second = "AuthError"))
               => rty.out.result = "503"

C40_Witness ==
    /\ rty.done
    /\ RetryReady /\ rty.first = "AuthError" /\ ~rty.refresh
    /\ rty.out.calls = 1 /\ rty.out.result = "503"

====
